---- MODULE Spec2Model ----
(***************************************************************************)
(* Model of release-damnit's commit-to-release analysis:                   *)
(*   internal/git      AnalyzeHead, GetCommitsInRange (git as an oracle)   *)
(*   internal/config   Load, FindPackageForPath, GetLinkedPackages         *)
(*   internal/version  Parse, String, Bump, CommitTypeToBump, MaxBump      *)
(*   internal/release  Analyze, calculateReleases, createRelease           *)
(*                                                                         *)
(* Go strings that the code inspects byte by byte (paths, version strings) *)
(* are sequences of one-character strings; "a/b" is <<"a", "/", "b">>.     *)
(* Strings that the code only compares whole (component names, group       *)
(* names, commit types) are TLA+ strings.                                  *)
(***************************************************************************)
EXTENDS Integers, Sequences, FiniteSets, TLC

VARIABLES
    nCommits,        \* repository: commits are 1..nCommits in creation order, HEAD = nCommits
    parents,         \* repository: commit -> sequence of its parents (first parent first)
    rawConfig,       \* release-please-config.json + manifest as read from disk
    policy,          \* Options.TreatPreMajorAsMinor
    pc,              \* position inside Analyze / FindPackageForPath
    cfg,             \* Analyze: cfg (the loaded *config.Config)
    info,            \* Analyze: mergeInfo
    base,            \* AnalyzeHead: firstParent / Analyze: the base of the range
    commits,         \* Analyze: commits
    packageCommits,  \* Analyze: packageCommits
    releases,        \* Analyze: releases
    err,             \* Analyze: the returned error ("" is nil)
    queries,         \* the git queries issued so far, in order
    failure,         \* the git query that failed for a reason of its own ("" is none)
    filePath,        \* FindPackageForPath: the argument
    owner,           \* FindPackageForPath: the result
    subject,         \* parseCommit: the subject line of the commit being parsed
    ver,             \* Version methods: the receiver
    other,           \* Version.Compare: the argument
    bumpArg,         \* Version.Bump: the argument bumpType
    typeArg,         \* CommitTypeToBump: the argument commitType
    text,            \* Version.String: the result / version.Parse: the argument
    result,          \* the result of the version function that was called
    dryRun,          \* Apply: the argument dryRun
    relIdx,          \* Apply: the index in result.Releases of the release being written
    disk,            \* the VERSION files, the CHANGELOG files and the manifest on disk
    before,          \* disk as it was when Apply was called
    generated        \* the entries changelog.Generate was called with, in order

\* The arguments and results of the functions that are called on their own.
callVars == <<subject, ver, other, bumpArg, typeArg, text, result>>

\* The variables of Apply, but for pc and err.
applyVars == <<dryRun, relIdx, disk, before, generated>>

\* The variables of Analyze and FindPackageForPath, but for pc and policy.
analysisVars == <<nCommits, parents, rawConfig, cfg, info, base, commits, packageCommits,
                  releases, err, queries, failure, filePath, owner>>

vars == <<nCommits, parents, rawConfig, policy, pc, cfg, info, base, commits,
          packageCommits, releases, err, queries, failure, filePath, owner, callVars,
          applyVars>>

(***************************************************************************)
(* Bounds                                                                  *)
(***************************************************************************)
MaxCommits == 5      \* commits in the repository
MaxParents == 3      \* parents of one commit
MaxRange == 2        \* commits handed to the calculator in SpecCalc
MaxKeyLen == 3       \* characters of a configured package key in SpecPath
MaxFileLen == 5      \* characters of a file path in SpecPath
MaxPkgs == 2         \* configured packages in SpecPath
MaxField == 1        \* major, minor and patch of a version in SpecVersion (Bump, Compare)
MaxNum == 10         \* major, minor and patch of a version in SpecVersion (String, Parse)
MaxIdLen == 2        \* characters of a prerelease string in SpecVersion
MaxPieces == 5       \* words and punctuation marks of a subject line in SpecCommit
MaxVersionLen == 5   \* characters of a stored version in SpecRelease
MaxRawLen == 4       \* characters of a package key and of a file path in SpecNorm
MaxApplyCommits == 2 \* commits handed to the calculator in SpecApply

(***************************************************************************)
(* Byte strings                                                            *)
(***************************************************************************)
Digits == <<"0", "1", "2", "3", "4", "5", "6", "7", "8", "9">>

\* The byte value of a character (Go compares strings bytewise).
Ord(c) ==
    CASE c = "+" -> 43 [] c = "-" -> 45 [] c = "." -> 46 [] c = "/" -> 47
      [] c = "0" -> 48 [] c = "1" -> 49 [] c = "2" -> 50 [] c = "3" -> 51
      [] c = "4" -> 52 [] c = "5" -> 53 [] c = "6" -> 54 [] c = "7" -> 55
      [] c = "8" -> 56 [] c = "9" -> 57
      [] c = "a" -> 97 [] c = "b" -> 98 [] c = "v" -> 118 [] c = "x" -> 120
      [] OTHER -> 127

\* s < t for Go strings.
RECURSIVE StrLess(_, _)
StrLess(s, t) ==
    IF t = <<>> THEN FALSE
    ELSE IF s = <<>> THEN TRUE
    ELSE IF Ord(Head(s)) # Ord(Head(t)) THEN Ord(Head(s)) < Ord(Head(t))
    ELSE StrLess(Tail(s), Tail(t))

HasPrefix(s, p) == Len(p) <= Len(s) /\ SubSeq(s, 1, Len(p)) = p

HasSuffix(s, p) == Len(p) <= Len(s) /\ SubSeq(s, Len(s) - Len(p) + 1, Len(s)) = p

TrimPrefix(s, p) == IF HasPrefix(s, p) THEN SubSeq(s, Len(p) + 1, Len(s)) ELSE s

TrimSuffix(s, p) == IF HasSuffix(s, p) THEN SubSeq(s, 1, Len(s) - Len(p)) ELSE s

\* All sequences over S of length at most n.
SeqsUpTo(S, n) == UNION {[1..k -> S] : k \in 0..n}

\* The elements of a sequence.
Range(s) == {s[i] : i \in DOMAIN s}

(***************************************************************************)
(* internal/config                                                         *)
(***************************************************************************)
normalizePath(path) ==
    TrimPrefix(TrimSuffix(TrimPrefix(path, <<".", "/">>), <<"/">>), <<"/">>)

\* sort.Slice(result, func(i, j) { return result[i].Path < result[j].Path })
\* applied to the packages of a set of distinct paths: the paths in order.
RECURSIVE SortPaths(_)
SortPaths(S) ==
    IF S = {} THEN <<>>
    ELSE LET least == CHOOSE p \in S : \A q \in S \ {p} : StrLess(p, q)
         IN  <<least>> \o SortPaths(S \ {least})

\* componentToGroup[comp] after the plugin loop of Load: the group of the
\* last linked-versions plugin that lists comp, "" when there is none.
ComponentToGroup(plugins, comp) ==
    LET hits == {i \in DOMAIN plugins :
                    plugins[i].Type = "linked-versions" /\ comp \in plugins[i].Components}
    IN  IF hits = {} THEN ""
        ELSE plugins[CHOOSE i \in hits : \A j \in hits : j <= i].GroupName

\* config.LinkedGroups after the plugin loop of Load.
LinkedGroupsOf(plugins) ==
    LET linked == {i \in DOMAIN plugins : plugins[i].Type = "linked-versions"}
        names  == {plugins[i].GroupName : i \in linked}
    IN  [g \in names |->
            plugins[CHOOSE i \in linked :
                       /\ plugins[i].GroupName = g
                       /\ \A j \in linked : plugins[j].GroupName = g => j <= i].Components]

\* manifest[path] of a Go map: the zero value "" for a missing key.
ManifestGet(manifest, path) ==
    IF path \in DOMAIN manifest THEN manifest[path] ELSE <<>>

\* Load: raw.Readable is false when a file cannot be read or parsed.
\* raw.Packages maps the keys of the "packages" object to their entries.
LoadErrorUnvalidated(raw) ==
    IF ~raw.Readable THEN "failed to read config" ELSE ""

LoadError(raw) ==
    IF ~raw.Readable THEN "failed to read config"
    ELSE IF \E k \in DOMAIN raw.Packages : raw.Packages[k].Component = ""
         THEN "missing component name"
         ELSE ""

Load(raw) ==
    [Packages |->
        [p \in {normalizePath(k) : k \in DOMAIN raw.Packages} |->
            LET k == CHOOSE k \in DOMAIN raw.Packages : normalizePath(k) = p
            IN  [Path           |-> p,
                 Component      |-> raw.Packages[k].Component,
                 CurrentVersion |-> ManifestGet(raw.Manifest, p),
                 LinkedGroup    |-> ComponentToGroup(raw.Plugins, raw.Packages[k].Component)]],
     LinkedGroups |-> LinkedGroupsOf(raw.Plugins)]

\* The value of cfg before Load has returned (and after it failed).
NoConfig == [Packages |-> <<>>, LinkedGroups |-> <<>>]

\* A nil *Package.
NilPackage == [Found |-> FALSE, Path |-> <<>>]

\* The loop of FindPackageForPath over c.Packages, visiting the keys in the
\* given order; best is bestMatch, bestLen is bestMatchLen.
RECURSIVE FindPackageLoop(_, _, _, _, _)
FindPackageLoopLastMatch(c, file, order, best, bestLen) ==
    IF order = <<>> THEN best
    ELSE LET path == Head(order)
         IN  IF HasPrefix(file, path \o <<"/">>) \/ file = path
             THEN FindPackageLoop(c, file, Tail(order), [Found |-> TRUE, Path |-> path], Len(path))
             ELSE FindPackageLoop(c, file, Tail(order), best, bestLen)

FindPackageLoopBarePrefix(c, file, order, best, bestLen) ==
    IF order = <<>> THEN best
    ELSE LET path == Head(order)
         IN  IF (HasPrefix(file, path) \/ file = path) /\ Len(path) > bestLen
             THEN FindPackageLoop(c, file, Tail(order), [Found |-> TRUE, Path |-> path], Len(path))
             ELSE FindPackageLoop(c, file, Tail(order), best, bestLen)

FindPackageLoop(c, file, order, best, bestLen) ==
    IF order = <<>> THEN best
    ELSE LET path == Head(order)
         IN  IF (HasPrefix(file, path \o <<"/">>) \/ file = path) /\ Len(path) > bestLen
             THEN FindPackageLoop(c, file, Tail(order), [Found |-> TRUE, Path |-> path], Len(path))
             ELSE FindPackageLoop(c, file, Tail(order), best, bestLen)

\* FindPackageForPath; the map is visited in path order here (any order
\* gives the loop the same candidates).
FindPackageForPath(c, file) ==
    FindPackageLoop(c, normalizePath(file), SortPaths(DOMAIN c.Packages), NilPackage, 0)

\* PackagesSortedByPath, as the sequence of the packages' paths.
PackagesSortedByPath(c) == SortPaths(DOMAIN c.Packages)

\* GetLinkedPackages, as the sequence of the packages' paths.
GetLinkedPackages(c, pkg) ==
    IF pkg.LinkedGroup = "" THEN <<pkg.Path>>
    ELSE LET components == IF pkg.LinkedGroup \in DOMAIN c.LinkedGroups
                           THEN c.LinkedGroups[pkg.LinkedGroup] ELSE {}
         IN  SortPaths({p \in DOMAIN c.Packages : c.Packages[p].Component \in components})

(***************************************************************************)
(* internal/version                                                        *)
(***************************************************************************)
None == 0
Patch == 1
Minor == 2
Major == 3

\* The character class \d of semverRegex.
DigitChars == {Digits[i] : i \in DOMAIN Digits}

\* The character class [0-9A-Za-z-.] of semverRegex.
IdentChars == DigitChars \cup {"a", "b", "v", "x", "-", "."}

DigitValue(c) == (CHOOSE i \in DOMAIN Digits : Digits[i] = c) - 1

\* strconv.Atoi on a run of digits.
RECURSIVE AtoiFrom(_, _)
AtoiFrom(s, acc) ==
    IF s = <<>> THEN acc ELSE AtoiFrom(Tail(s), acc * 10 + DigitValue(Head(s)))

Atoi(s) == AtoiFrom(s, 0)

\* fmt.Sprintf("%d", n) for n >= 0.
RECURSIVE Itoa(_)
Itoa(n) == IF n < 10 THEN <<Digits[n + 1]>> ELSE Itoa(n \div 10) \o <<Digits[(n % 10) + 1]>>

\* The length of the longest prefix of s made of characters of class.
RECURSIVE SpanLen(_, _)
SpanLen(s, class) ==
    IF s = <<>> \/ Head(s) \notin class THEN 0 ELSE 1 + SpanLen(Tail(s), class)

Drop(s, n) == SubSeq(s, n + 1, Len(s))

NoVersion == [Ok |-> FALSE, Major |-> 0, Minor |-> 0, Patch |-> 0,
              Prerelease |-> <<>>, Build |-> <<>>]

\* The longest prefix of s made of characters of class: a greedy + or *.
Lead(s, class) == SubSeq(s, 1, SpanLen(s, class))

\* Parse: a match of
\*   ^v?(\d+)\.(\d+)\.(\d+)(?:-([0-9A-Za-z-.]+))?(?:\+([0-9A-Za-z-.]+))?$
\* one group after the other; v holds the groups matched so far.  The
\* result is NoVersion when the regex does not match (Parse returns an error).
\* (?:\+([0-9A-Za-z-.]+))?$
ParseBuild(s, v) ==
    IF s = <<>> THEN v
    ELSE IF Head(s) = "+" /\ Tail(s) # <<>> /\ Lead(Tail(s), IdentChars) = Tail(s)
    THEN [v EXCEPT !.Build = Tail(s)]
    ELSE NoVersion

\* (?:-([0-9A-Za-z-.]+))?
ParsePrerelease(s, v) ==
    IF s # <<>> /\ Head(s) = "-"
    THEN LET pre == Lead(Tail(s), IdentChars)
         IN  IF pre = <<>> THEN NoVersion
             ELSE ParseBuild(Drop(Tail(s), Len(pre)), [v EXCEPT !.Prerelease = pre])
    ELSE ParseBuild(s, v)

\* (\d+)
ParsePatch(s, v) ==
    LET digits == Lead(s, DigitChars)
    IN  IF digits = <<>> THEN NoVersion
        ELSE ParsePrerelease(Drop(s, Len(digits)), [v EXCEPT !.Patch = Atoi(digits)])

\* (\d+)\.
ParseMinor(s, v) ==
    LET digits == Lead(s, DigitChars)
    IN  IF digits = <<>> \/ ~HasPrefix(Drop(s, Len(digits)), <<".">>) THEN NoVersion
        ELSE ParsePatch(Drop(s, Len(digits) + 1), [v EXCEPT !.Minor = Atoi(digits)])

\* (\d+)\.
ParseMajor(s, v) ==
    LET digits == Lead(s, DigitChars)
    IN  IF digits = <<>> \/ ~HasPrefix(Drop(s, Len(digits)), <<".">>) THEN NoVersion
        ELSE ParseMinor(Drop(s, Len(digits) + 1), [v EXCEPT !.Major = Atoi(digits)])

Parse(s) == ParseMajor(TrimPrefix(s, <<"v">>), [NoVersion EXCEPT !.Ok = TRUE])

\* Version.String
StringDropsBuild(v) ==
    Itoa(v.Major) \o <<".">> \o Itoa(v.Minor) \o <<".">> \o Itoa(v.Patch)
        \o (IF v.Prerelease # <<>> THEN <<"-">> \o v.Prerelease ELSE <<>>)

String(v) ==
    Itoa(v.Major) \o <<".">> \o Itoa(v.Minor) \o <<".">> \o Itoa(v.Patch)
        \o (IF v.Prerelease # <<>> THEN <<"-">> \o v.Prerelease ELSE <<>>)
        \o (IF v.Build # <<>> THEN <<"+">> \o v.Build ELSE <<>>)

\* Version.Bump
BumpNoDowngrade(v, bumpType, treatPreMajorAsMinor) ==
    LET mk(ma, mi, pa) == [Ok |-> TRUE, Major |-> ma, Minor |-> mi, Patch |-> pa,
                           Prerelease |-> <<>>, Build |-> <<>>]
    IN  IF bumpType = None THEN mk(v.Major, v.Minor, v.Patch)
        ELSE CASE bumpType = Patch -> mk(v.Major, v.Minor, v.Patch + 1)
               [] bumpType = Minor -> mk(v.Major, v.Minor + 1, 0)
               [] bumpType = Major -> mk(v.Major + 1, 0, 0)

BumpKeepsMetadata(v, bumpType, treatPreMajorAsMinor) ==
    LET mk(ma, mi, pa) == [Ok |-> TRUE, Major |-> ma, Minor |-> mi, Patch |-> pa,
                           Prerelease |-> <<>>, Build |-> <<>>]
        bt == IF v.Major = 0 /\ treatPreMajorAsMinor /\ bumpType = Minor
              THEN Patch ELSE bumpType
    IN  IF bumpType = None THEN [v EXCEPT !.Ok = TRUE]
        ELSE CASE bt = Patch -> mk(v.Major, v.Minor, v.Patch + 1)
               [] bt = Minor -> mk(v.Major, v.Minor + 1, 0)
               [] bt = Major -> mk(v.Major + 1, 0, 0)

BumpMinorKeepsPatch(v, bumpType, treatPreMajorAsMinor) ==
    LET mk(ma, mi, pa) == [Ok |-> TRUE, Major |-> ma, Minor |-> mi, Patch |-> pa,
                           Prerelease |-> <<>>, Build |-> <<>>]
        bt == IF v.Major = 0 /\ treatPreMajorAsMinor /\ bumpType = Minor
              THEN Patch ELSE bumpType
    IN  IF bumpType = None THEN mk(v.Major, v.Minor, v.Patch)
        ELSE CASE bt = Patch -> mk(v.Major, v.Minor, v.Patch + 1)
               [] bt = Minor -> mk(v.Major, v.Minor + 1, v.Patch)
               [] bt = Major -> mk(v.Major + 1, 0, 0)

Bump(v, bumpType, treatPreMajorAsMinor) ==
    LET mk(ma, mi, pa) == [Ok |-> TRUE, Major |-> ma, Minor |-> mi, Patch |-> pa,
                           Prerelease |-> <<>>, Build |-> <<>>]
        bt == IF v.Major = 0 /\ treatPreMajorAsMinor /\ bumpType = Minor
              THEN Patch ELSE bumpType
    IN  IF bumpType = None THEN mk(v.Major, v.Minor, v.Patch)
        ELSE CASE bt = Patch -> mk(v.Major, v.Minor, v.Patch + 1)
               [] bt = Minor -> mk(v.Major, v.Minor + 1, 0)
               [] bt = Major -> mk(v.Major + 1, 0, 0)

\* Version.Compare
CompareIgnoresPrerelease(v, o) ==
    IF v.Major # o.Major THEN (IF v.Major < o.Major THEN -1 ELSE 1)
    ELSE IF v.Minor # o.Minor THEN (IF v.Minor < o.Minor THEN -1 ELSE 1)
    ELSE IF v.Patch # o.Patch THEN (IF v.Patch < o.Patch THEN -1 ELSE 1)
    ELSE 0

Compare(v, o) ==
    IF v.Major # o.Major THEN (IF v.Major < o.Major THEN -1 ELSE 1)
    ELSE IF v.Minor # o.Minor THEN (IF v.Minor < o.Minor THEN -1 ELSE 1)
    ELSE IF v.Patch # o.Patch THEN (IF v.Patch < o.Patch THEN -1 ELSE 1)
    ELSE IF v.Prerelease = <<>> /\ o.Prerelease # <<>> THEN 1
    ELSE IF v.Prerelease # <<>> /\ o.Prerelease = <<>> THEN -1
    ELSE IF StrLess(v.Prerelease, o.Prerelease) THEN -1
    ELSE IF StrLess(o.Prerelease, v.Prerelease) THEN 1
    ELSE 0

\* strings.ToLower on the commit types of the model: the types that are not
\* in lower case, with their lower case.
LowerCase ==
    ("FEAT" :> "feat") @@ ("Feat" :> "feat") @@ ("FIX" :> "fix") @@ ("Fix" :> "fix")
        @@ ("PERF" :> "perf") @@ ("Perf" :> "perf") @@ ("CHORE" :> "chore")
        @@ ("Docs" :> "docs") @@ ("CI" :> "ci") @@ ("WIP" :> "wip")

ToLower(t) == IF t \in DOMAIN LowerCase THEN LowerCase[t] ELSE t

\* CommitTypeToBump
CommitTypeToBumpCaseSensitive(commitType) ==
    IF commitType = "feat" THEN Minor
    ELSE IF commitType \in {"fix", "perf"} THEN Patch
    ELSE None

CommitTypeToBump(commitType) ==
    LET t == ToLower(commitType)
    IN  IF t = "feat" THEN Minor
        ELSE IF t \in {"fix", "perf"} THEN Patch
        ELSE None

\* MaxBump
MaxBumpLast(a, b) == b

MaxBump(a, b) == IF a > b THEN a ELSE b

(***************************************************************************)
(* internal/release                                                        *)
(***************************************************************************)
\* packageCommits[path] of a Go map: nil for a missing key.
PCGet(pcm, path) == IF path \in DOMAIN pcm THEN pcm[path] ELSE <<>>

\* packageCommits[path] = append(packageCommits[path], commit)
PCAppend(pcm, path, commit) ==
    [p \in DOMAIN pcm \cup {path} |->
        IF p = path THEN Append(PCGet(pcm, path), commit) ELSE pcm[p]]

\* Analyze, the inner loop over commit.Files.
RECURSIVE MapFiles(_, _, _, _)
MapFiles(c, commit, files, pcm) ==
    IF files = <<>> THEN pcm
    ELSE LET pkg == FindPackageForPath(c, Head(files))
         IN  MapFiles(c, commit, Tail(files),
                      IF pkg.Found THEN PCAppend(pcm, pkg.Path, commit) ELSE pcm)

\* Analyze, the loop over commits that fills packageCommits.
RECURSIVE MapCommitsToPackages(_, _, _)
MapCommitsToPackages(c, cs, pcm) ==
    IF cs = <<>> THEN pcm
    ELSE MapCommitsToPackages(c, Tail(cs), MapFiles(c, Head(cs), Head(cs).Files, pcm))

\* calculateReleases, the loop that folds a commit list into maxBump; it
\* leaves the loop at the first breaking commit.
RECURSIVE BumpLoop(_, _)
BumpLoopIgnoreBreaking(cs, maxBump) ==
    IF cs = <<>> THEN maxBump
    ELSE BumpLoop(Tail(cs), MaxBump(maxBump, CommitTypeToBump(Head(cs).Type)))

BumpLoop(cs, maxBump) ==
    IF cs = <<>> THEN maxBump
    ELSE IF Head(cs).IsBreaking THEN Major
    ELSE BumpLoop(Tail(cs), MaxBump(maxBump, CommitTypeToBump(Head(cs).Type)))

\* calculateReleases, the loop over linkedPackages that raises maxBump.
RECURSIVE LinkedBumpLoop(_, _, _)
LinkedBumpLoopOwnOnly(pcm, linked, maxBump) == maxBump

LinkedBumpLoop(pcm, linked, maxBump) ==
    IF linked = <<>> THEN maxBump
    ELSE LinkedBumpLoop(pcm, Tail(linked), BumpLoop(PCGet(pcm, Head(linked)), maxBump))

\* createRelease, the loop that drops the commits whose SHA was seen.
RECURSIVE UniqueCommits(_, _)
UniqueCommitsKeepsAll(cs, seen) == cs

UniqueCommits(cs, seen) ==
    IF cs = <<>> THEN <<>>
    ELSE IF Head(cs).SHA \in seen THEN UniqueCommits(Tail(cs), seen)
    ELSE <<Head(cs)>> \o UniqueCommits(Tail(cs), seen \cup {Head(cs).SHA})

\* createRelease
createReleaseKeepsStored(pkg, cs, bumpType, treatPreMajorAsMinor) ==
    LET stored == IF pkg.CurrentVersion = <<>>
                  THEN <<"0", ".", "0", ".", "0">> ELSE pkg.CurrentVersion
        parsed == Parse(stored)
        v == IF parsed.Ok THEN parsed
             ELSE [Ok |-> TRUE, Major |-> 0, Minor |-> 1, Patch |-> 0,
                   Prerelease |-> <<>>, Build |-> <<>>]
    IN  [Package    |-> pkg,
         BumpType   |-> bumpType,
         OldVersion |-> stored,
         NewVersion |-> String(Bump(v, bumpType, treatPreMajorAsMinor)),
         Commits    |-> UniqueCommits(cs, {})]

createReleaseResetsToZero(pkg, cs, bumpType, treatPreMajorAsMinor) ==
    LET stored == IF pkg.CurrentVersion = <<>>
                  THEN <<"0", ".", "0", ".", "0">> ELSE pkg.CurrentVersion
        parsed == Parse(stored)
        v == IF parsed.Ok THEN parsed
             ELSE [Ok |-> TRUE, Major |-> 0, Minor |-> 0, Patch |-> 0,
                   Prerelease |-> <<>>, Build |-> <<>>]
        oldVersion == IF parsed.Ok THEN stored ELSE <<"0", ".", "0", ".", "0">>
    IN  [Package    |-> pkg,
         BumpType   |-> bumpType,
         OldVersion |-> oldVersion,
         NewVersion |-> String(Bump(v, bumpType, treatPreMajorAsMinor)),
         Commits    |-> UniqueCommits(cs, {})]

createRelease(pkg, cs, bumpType, treatPreMajorAsMinor) ==
    LET stored == IF pkg.CurrentVersion = <<>>
                  THEN <<"0", ".", "0", ".", "0">> ELSE pkg.CurrentVersion
        parsed == Parse(stored)
        v == IF parsed.Ok THEN parsed
             ELSE [Ok |-> TRUE, Major |-> 0, Minor |-> 1, Patch |-> 0,
                   Prerelease |-> <<>>, Build |-> <<>>]
        oldVersion == IF parsed.Ok THEN stored ELSE <<"0", ".", "1", ".", "0">>
    IN  [Package    |-> pkg,
         BumpType   |-> bumpType,
         OldVersion |-> oldVersion,
         NewVersion |-> String(Bump(v, bumpType, treatPreMajorAsMinor)),
         Commits    |-> UniqueCommits(cs, {})]

\* calculateReleases, the loop that creates a release for every linked package.
RECURSIVE LinkedReleases(_, _, _, _, _)
LinkedReleases(c, pcm, linked, maxBump, treatPreMajorAsMinor) ==
    IF linked = <<>> THEN <<>>
    ELSE <<createRelease(c.Packages[Head(linked)], PCGet(pcm, Head(linked)),
                         maxBump, treatPreMajorAsMinor)>>
         \o LinkedReleases(c, pcm, Tail(linked), maxBump, treatPreMajorAsMinor)

\* calculateReleases, the loop over cfg.PackagesSortedByPath(); rels is
\* releases and processed is processedLinkedGroups.
RECURSIVE ReleaseLoop(_, _, _, _, _, _)
ReleaseLoopForgetsGroups(c, pcm, treatPreMajorAsMinor, pkgs, rels, processed) ==
    IF pkgs = <<>> THEN rels
    ELSE LET pkg == c.Packages[Head(pkgs)]
             cs == PCGet(pcm, pkg.Path)
             maxBump == BumpLoop(cs, None)
             linked == GetLinkedPackages(c, pkg)
         IN  IF Len(cs) = 0 \/ maxBump = None
             THEN ReleaseLoop(c, pcm, treatPreMajorAsMinor, Tail(pkgs), rels, processed)
             ELSE IF pkg.LinkedGroup # ""
             THEN ReleaseLoop(c, pcm, treatPreMajorAsMinor, Tail(pkgs),
                      rels \o LinkedReleases(c, pcm, linked,
                                  LinkedBumpLoop(pcm, linked, maxBump),
                                  treatPreMajorAsMinor),
                      processed)
             ELSE ReleaseLoop(c, pcm, treatPreMajorAsMinor, Tail(pkgs),
                      Append(rels, createRelease(pkg, cs, maxBump, treatPreMajorAsMinor)),
                      processed)

ReleaseLoopKeepNone(c, pcm, treatPreMajorAsMinor, pkgs, rels, processed) ==
    IF pkgs = <<>> THEN rels
    ELSE LET pkg == c.Packages[Head(pkgs)]
             cs == PCGet(pcm, pkg.Path)
             maxBump == BumpLoop(cs, None)
             linked == GetLinkedPackages(c, pkg)
         IN  IF Len(cs) = 0
             THEN ReleaseLoop(c, pcm, treatPreMajorAsMinor, Tail(pkgs), rels, processed)
             ELSE IF pkg.LinkedGroup # ""
             THEN IF pkg.LinkedGroup \in processed
                  THEN ReleaseLoop(c, pcm, treatPreMajorAsMinor, Tail(pkgs), rels, processed)
                  ELSE ReleaseLoop(c, pcm, treatPreMajorAsMinor, Tail(pkgs),
                           rels \o LinkedReleases(c, pcm, linked,
                                       LinkedBumpLoop(pcm, linked, maxBump),
                                       treatPreMajorAsMinor),
                           processed \cup {pkg.LinkedGroup})
             ELSE ReleaseLoop(c, pcm, treatPreMajorAsMinor, Tail(pkgs),
                      Append(rels, createRelease(pkg, cs, maxBump, treatPreMajorAsMinor)),
                      processed)

ReleaseLoop(c, pcm, treatPreMajorAsMinor, pkgs, rels, processed) ==
    IF pkgs = <<>> THEN rels
    ELSE LET pkg == c.Packages[Head(pkgs)]
             cs == PCGet(pcm, pkg.Path)
             maxBump == BumpLoop(cs, None)
             linked == GetLinkedPackages(c, pkg)
         IN  IF Len(cs) = 0 \/ maxBump = None
             THEN ReleaseLoop(c, pcm, treatPreMajorAsMinor, Tail(pkgs), rels, processed)
             ELSE IF pkg.LinkedGroup # ""
             THEN IF pkg.LinkedGroup \in processed
                  THEN ReleaseLoop(c, pcm, treatPreMajorAsMinor, Tail(pkgs), rels, processed)
                  ELSE ReleaseLoop(c, pcm, treatPreMajorAsMinor, Tail(pkgs),
                           rels \o LinkedReleases(c, pcm, linked,
                                       LinkedBumpLoop(pcm, linked, maxBump),
                                       treatPreMajorAsMinor),
                           processed \cup {pkg.LinkedGroup})
             ELSE ReleaseLoop(c, pcm, treatPreMajorAsMinor, Tail(pkgs),
                      Append(rels, createRelease(pkg, cs, maxBump, treatPreMajorAsMinor)),
                      processed)

\* The releases in the order calculateReleases appends them, before its sort.
EmittedReleases(c, pcm, treatPreMajorAsMinor) ==
    ReleaseLoop(c, pcm, treatPreMajorAsMinor, PackagesSortedByPath(c), <<>>, {})

\* sort.Slice(releases, func(i, j) { return releases[i].Package.Path < releases[j].Package.Path })
RECURSIVE InsertRelease(_, _)
InsertRelease(sorted, rel) ==
    IF sorted = <<>> THEN <<rel>>
    ELSE IF StrLess(rel.Package.Path, Head(sorted).Package.Path)
    THEN <<rel>> \o sorted
    ELSE <<Head(sorted)>> \o InsertRelease(Tail(sorted), rel)

RECURSIVE SortReleases(_)
SortReleasesSkipped(rels) == rels

SortReleases(rels) ==
    IF rels = <<>> THEN <<>>
    ELSE InsertRelease(SortReleases(SubSeq(rels, 1, Len(rels) - 1)), rels[Len(rels)])

\* calculateReleases
calculateReleases(c, pcm, treatPreMajorAsMinor) ==
    SortReleases(EmittedReleases(c, pcm, treatPreMajorAsMinor))

(***************************************************************************)
(* internal/release Apply: the files it reads and writes.  VERSION and     *)
(* CHANGELOG files are kept by the path of their package, the manifest as  *)
(* the object it holds (package path -> version).                          *)
(***************************************************************************)
\* A VERSION file that does not exist (os.ReadFile: os.IsNotExist).
NoVersionFile == [Exists |-> FALSE, Version |-> <<>>, Marker |-> FALSE]

\* A CHANGELOG file that does not exist.
NoChangelogFile == [Exists |-> FALSE, Entries |-> <<>>]

\* A file os.WriteFile truncated and then failed to write.
TruncatedVersionFile == [Exists |-> TRUE, Version |-> <<>>, Marker |-> FALSE]

TruncatedChangelogFile == [Exists |-> TRUE, Entries |-> <<>>]

\* os.ReadFile of the file of the package at path.
ReadFile(files, path, none) == IF path \in DOMAIN files THEN files[path] ELSE none

\* os.WriteFile of the file of the package at path.
WriteFile(files, path, content) ==
    [q \in DOMAIN files \cup {path} |-> IF q = path THEN content ELSE files[q]]

\* version.FormatVersionFile: the marker x-release-please-version is kept
\* when the original content has it.
FormatVersionFile(version, originalContent) ==
    [Exists |-> TRUE, Version |-> version, Marker |-> originalContent.Marker]

\* updateChangelog, the entry handed to changelog.Generate.
ChangelogEntry(r) ==
    [Version |-> r.NewVersion, Commits |-> r.Commits, Component |-> r.Package.Component,
     PrevVersion |-> r.OldVersion]

\* changelog.Prepend of the generated entry (a file that did not exist
\* starts as changelog.InitialChangelog, which has no entries).
Prepend(existing, entry) ==
    [Exists |-> TRUE, Entries |-> <<entry>> \o existing.Entries]

\* Apply, the loop that fills manifestUpdates: the last release of a path
\* sets its version.
ManifestUpdates(rels) ==
    [p \in {rels[i].Package.Path : i \in DOMAIN rels} |->
        LET last == CHOOSE i \in DOMAIN rels :
                        /\ rels[i].Package.Path = p
                        /\ \A j \in DOMAIN rels : rels[j].Package.Path = p => j <= i
        IN  rels[last].NewVersion]

\* replaceJSONValue: the value of the first "key": of the text is replaced;
\* a text without the key is returned as it is.
replaceJSONValue(json, key, newValue) ==
    IF key \in DOMAIN json THEN [json EXCEPT ![key] = newValue] ELSE json

\* updateManifest, the loop over updates (keys is the part of the map that
\* is still to be visited).
RECURSIVE UpdateManifestLoop(_, _, _)
UpdateManifestLoop(content, updates, keys) ==
    IF keys = {} THEN content
    ELSE LET path == CHOOSE k \in keys : TRUE
         IN  UpdateManifestLoop(replaceJSONValue(content, path, updates[path]),
                                updates, keys \ {path})

(***************************************************************************)
(* git, as the oracle that runGit queries                                  *)
(***************************************************************************)
HEAD == nCommits

\* The commits reachable from c in the commit graph g, c included.
RECURSIVE AncestorsIn(_, _)
AncestorsIn(g, c) == {c} \cup UNION {AncestorsIn(g, g[c][i]) : i \in DOMAIN g[c]}

Ancestors(c) == AncestorsIn(parents, c)

\* git merge-base a b prints one best common ancestor: a common ancestor
\* that is not an ancestor of another common ancestor.  It fails when the
\* histories are unrelated.
MergeBases(a, b) ==
    LET common == Ancestors(a) \cap Ancestors(b)
    IN  {x \in common : \A y \in common \ {x} : x \notin Ancestors(y)}

\* A set of commits, oldest first.
RECURSIVE OldestFirst(_)
OldestFirst(S) ==
    IF S = {} THEN <<>>
    ELSE LET oldest == CHOOSE c \in S : \A d \in S : c <= d
         IN  <<oldest>> \o OldestFirst(S \ {oldest})

\* git log --reverse from..to: the commits reachable from to and not from from.
LogRange(from, to) == OldestFirst(Ancestors(to) \ Ancestors(from))

\* What parseCommit and getChangedFiles can yield for one commit of the
\* repositories of Spec.  git diff-tree prints no file for a merge commit
\* and none for a root commit.
FileAX == <<"a", "/", "x">>
FileABX == <<"a", "/", "b", "/", "x">>
FileBX == <<"b", "/", "x">>
FileX == <<"x">>

CommitShapes(c) ==
    IF Len(parents[c]) # 1
    THEN {[Type |-> "", IsBreaking |-> FALSE, Files |-> <<>>]}
    ELSE {[Type |-> "feat", IsBreaking |-> FALSE, Files |-> <<FileAX>>],
          [Type |-> "chore", IsBreaking |-> FALSE, Files |-> <<FileBX>>]}

\* The *Commit that GetCommitsInRange builds for commit c.
MakeCommit(c, shape) ==
    [SHA |-> c, Type |-> shape.Type, IsBreaking |-> shape.IsBreaking, Files |-> shape.Files]

\* The character classes \w and \s of conventionalCommitRegex, over the
\* characters of the model's subjects.
WordChars == {"f", "e", "a", "t", "F", "i", "x"}

SpaceChars == {" "}

SubjectChars == WordChars \cup SpaceChars \cup {"(", ")", "!", ":"}

NoMatch == [Ok |-> FALSE, Type |-> <<>>, Scope |-> <<>>, Bang |-> FALSE, Description |-> <<>>]

\* conventionalCommitRegex.FindStringSubmatch: a match of
\*   ^(\w+)(?:\(([^)]+)\))?(!)?\s*:\s*(.+)$
\* one piece after the other; m holds the groups matched so far.
\* \s*(.+)$ : the description starts after the blanks, unless only blanks are
\* left: then the last of them is the description.
MatchDescription(s, m) ==
    IF s = <<>> THEN NoMatch
    ELSE IF SpanLen(s, SpaceChars) < Len(s)
    THEN [m EXCEPT !.Description = Drop(s, SpanLen(s, SpaceChars))]
    ELSE [m EXCEPT !.Description = <<s[Len(s)]>>]

\* \s*:
MatchColon(s, m) ==
    IF HasPrefix(Drop(s, SpanLen(s, SpaceChars)), <<":">>)
    THEN MatchDescription(Drop(s, SpanLen(s, SpaceChars) + 1), m)
    ELSE NoMatch

\* (!)?
MatchBang(s, m) ==
    IF HasPrefix(s, <<"!">>) THEN MatchColon(Tail(s), [m EXCEPT !.Bang = TRUE])
    ELSE MatchColon(s, m)

\* (?:\(([^)]+)\))?
MatchScope(s, m) ==
    IF HasPrefix(s, <<"(">>)
    THEN LET scope == Lead(Tail(s), SubjectChars \ {")"})
         IN  IF scope # <<>> /\ Len(scope) + 1 < Len(s)
             THEN MatchBang(Drop(s, Len(scope) + 2), [m EXCEPT !.Scope = scope])
             ELSE NoMatch
    ELSE MatchBang(s, m)

\* ^(\w+)
FindStringSubmatch(s) ==
    LET type == Lead(s, WordChars)
    IN  IF type = <<>> THEN NoMatch
        ELSE MatchScope(Drop(s, Len(type)), [NoMatch EXCEPT !.Ok = TRUE, !.Type = type])

\* strings.ToLower on the characters of a subject.
LowerChar(c) == IF c = "F" THEN "f" ELSE c

\* strings.ToLower(matches[1]), as the string that Commit.Type is compared as.
RECURSIVE LowerString(_)
LowerString(chars) ==
    IF chars = <<>> THEN "" ELSE LowerChar(Head(chars)) \o LowerString(Tail(chars))

\* parseCommit; Files is filled by GetCommitsInRange.
parseCommitGuessesType(sha, subjectLine) ==
    LET matches == FindStringSubmatch(subjectLine)
    IN  IF matches.Ok
        THEN [SHA |-> sha, Type |-> LowerString(matches.Type), Scope |-> matches.Scope,
              Description |-> matches.Description, IsBreaking |-> matches.Bang,
              Files |-> <<>>]
        ELSE [SHA |-> sha, Type |-> LowerString(Lead(subjectLine, WordChars)),
              Scope |-> <<>>, Description |-> subjectLine, IsBreaking |-> FALSE,
              Files |-> <<>>]

parseCommit(sha, subjectLine) ==
    LET matches == FindStringSubmatch(subjectLine)
    IN  IF matches.Ok
        THEN [SHA |-> sha, Type |-> LowerString(matches.Type), Scope |-> matches.Scope,
              Description |-> matches.Description, IsBreaking |-> matches.Bang,
              Files |-> <<>>]
        ELSE [SHA |-> sha, Type |-> "", Scope |-> <<>>, Description |-> subjectLine,
              IsBreaking |-> FALSE, Files |-> <<>>]

(***************************************************************************)
(* internal/git AnalyzeHead and internal/release Analyze, one action per   *)
(* query of the oracle.  A query can also fail for a reason of its own     *)
(* (git missing, repository corrupt): the fault of each action.            *)
(***************************************************************************)
NoInfo == [IsMerge |-> FALSE, MergeBase |-> 0, MergeHead |-> 0, HeadSHA |-> 0]

Fail(msg) ==
    /\ err' = msg
    /\ pc' = "done"

\* Analyze: config.Load
LoadConfig ==
    /\ pc = "load"
    /\ IF LoadError(rawConfig) # ""
       THEN /\ Fail("failed to load config")
            /\ UNCHANGED cfg
       ELSE /\ cfg' = Load(rawConfig)
            /\ pc' = "head"
            /\ UNCHANGED err
    /\ UNCHANGED <<nCommits, parents, rawConfig, policy, info, base, commits,
                   packageCommits, releases, queries, failure, filePath, owner>>
    /\ UNCHANGED <<callVars, applyVars>>

\* AnalyzeHead: rev-parse HEAD
ResolveHead ==
    /\ pc = "head"
    /\ queries' = Append(queries, "rev-parse HEAD")
    /\ \E fault \in BOOLEAN :
          IF fault
          THEN /\ Fail("failed to analyze HEAD")
               /\ failure' = "rev-parse HEAD"
               /\ UNCHANGED info
          ELSE /\ info' = [info EXCEPT !.HeadSHA = HEAD]
               /\ pc' = "parent2"
               /\ UNCHANGED <<err, failure>>
    /\ UNCHANGED <<nCommits, parents, rawConfig, policy, cfg, base, commits,
                   packageCommits, releases, filePath, owner>>
    /\ UNCHANGED <<callVars, applyVars>>

\* AnalyzeHead: rev-parse HEAD^2; a failure means "not a merge commit"
ResolveSecondParentStrict ==
    /\ pc = "parent2"
    /\ queries' = Append(queries, "rev-parse HEAD^2")
    /\ \E fault \in BOOLEAN :
          IF fault \/ Len(parents[HEAD]) < 2
          THEN /\ Fail("failed to analyze HEAD")
               /\ failure' = IF fault THEN "rev-parse HEAD^2" ELSE failure
               /\ UNCHANGED info
          ELSE /\ info' = [info EXCEPT !.IsMerge = TRUE, !.MergeHead = parents[HEAD][2]]
               /\ pc' = "parent1"
               /\ UNCHANGED <<err, failure>>
    /\ UNCHANGED <<nCommits, parents, rawConfig, policy, cfg, base, commits,
                   packageCommits, releases, filePath, owner>>
    /\ UNCHANGED <<callVars, applyVars>>

ResolveSecondParent ==
    /\ pc = "parent2"
    /\ queries' = Append(queries, "rev-parse HEAD^2")
    /\ \E fault \in BOOLEAN :
          IF fault \/ Len(parents[HEAD]) < 2
          THEN /\ info' = [info EXCEPT !.IsMerge = FALSE]
               /\ pc' = "range"
               /\ failure' = IF fault THEN "rev-parse HEAD^2" ELSE failure
          ELSE /\ info' = [info EXCEPT !.IsMerge = TRUE, !.MergeHead = parents[HEAD][2]]
               /\ pc' = "parent1"
               /\ UNCHANGED failure
    /\ UNCHANGED <<nCommits, parents, rawConfig, policy, cfg, base, commits,
                   packageCommits, releases, err, filePath, owner>>
    /\ UNCHANGED <<callVars, applyVars>>

\* AnalyzeHead: rev-parse HEAD^1
ResolveFirstParent ==
    /\ pc = "parent1"
    /\ queries' = Append(queries, "rev-parse HEAD^1")
    /\ \E fault \in BOOLEAN :
          IF fault
          THEN /\ Fail("failed to analyze HEAD")
               /\ failure' = "rev-parse HEAD^1"
               /\ UNCHANGED base
          ELSE /\ base' = parents[HEAD][1]
               /\ pc' = "mergebase"
               /\ UNCHANGED <<err, failure>>
    /\ UNCHANGED <<nCommits, parents, rawConfig, policy, cfg, info, commits,
                   packageCommits, releases, filePath, owner>>
    /\ UNCHANGED <<callVars, applyVars>>

\* AnalyzeHead: merge-base firstParent mergeHead
ComputeMergeBase ==
    /\ pc = "mergebase"
    /\ queries' = Append(queries, "merge-base")
    /\ \E fault \in BOOLEAN :
          IF fault \/ MergeBases(base, info.MergeHead) = {}
          THEN /\ Fail("failed to analyze HEAD")
               /\ failure' = "merge-base"
               /\ UNCHANGED info
          ELSE /\ \E mb \in MergeBases(base, info.MergeHead) :
                     info' = [info EXCEPT !.MergeBase = mb]
               /\ pc' = "range"
               /\ UNCHANGED <<err, failure>>
    /\ UNCHANGED <<nCommits, parents, rawConfig, policy, cfg, base, commits,
                   packageCommits, releases, filePath, owner>>
    /\ UNCHANGED <<callVars, applyVars>>

\* GetCommitsInRange(from, to) with the commits of the range resolved; it
\* fails when the log query or a diff-tree query fails.
GetCommitsInRange(logFails, range, onError) ==
    \E fault \in {"", "log", "diff-tree"} :
        IF logFails \/ fault = "log" \/ (fault = "diff-tree" /\ range # <<>>)
        THEN /\ onError
             /\ failure' = IF logFails THEN failure ELSE fault
        ELSE /\ \E shapes \in [DOMAIN range -> UNION {CommitShapes(c) : c \in Range(range)}] :
                   /\ \A i \in DOMAIN range : shapes[i] \in CommitShapes(range[i])
                   /\ commits' = [i \in DOMAIN range |-> MakeCommit(range[i], shapes[i])]
             /\ pc' = "map"
             /\ UNCHANGED <<err, failure>>

\* Analyze: the commits to analyze
GetCommitsStrict ==
    /\ pc = "range"
    /\ queries' = Append(queries, "log")
    /\ IF info.IsMerge
       THEN GetCommitsInRange(FALSE, LogRange(info.MergeBase, info.MergeHead),
                /\ Fail("failed to get merge commits")
                /\ UNCHANGED commits)
       ELSE GetCommitsInRange(Len(parents[HEAD]) = 0,
                IF Len(parents[HEAD]) = 0 THEN <<>> ELSE LogRange(parents[HEAD][1], HEAD),
                /\ Fail("failed to get commits")
                /\ UNCHANGED commits)
    /\ UNCHANGED <<nCommits, parents, rawConfig, policy, cfg, info, base,
                   packageCommits, releases, filePath, owner>>
    /\ UNCHANGED <<callVars, applyVars>>

GetCommits ==
    /\ pc = "range"
    /\ queries' = Append(queries, "log")
    /\ IF info.IsMerge
       THEN GetCommitsInRange(FALSE, LogRange(info.MergeBase, info.MergeHead),
                /\ Fail("failed to get merge commits")
                /\ UNCHANGED commits)
       ELSE GetCommitsInRange(Len(parents[HEAD]) = 0,
                IF Len(parents[HEAD]) = 0 THEN <<>> ELSE LogRange(parents[HEAD][1], HEAD),
                /\ commits' = <<>>
                /\ pc' = "map"
                /\ UNCHANGED err)
    /\ UNCHANGED <<nCommits, parents, rawConfig, policy, cfg, info, base,
                   packageCommits, releases, filePath, owner>>
    /\ UNCHANGED <<callVars, applyVars>>

\* Analyze: map commits to packages
MapCommits ==
    /\ pc = "map"
    /\ packageCommits' = MapCommitsToPackages(cfg, commits, <<>>)
    /\ pc' = "calc"
    /\ UNCHANGED <<nCommits, parents, rawConfig, policy, cfg, info, base, commits,
                   releases, err, queries, failure, filePath, owner>>
    /\ UNCHANGED <<callVars, applyVars>>

\* Analyze: calculate bumps per package and return the result
CalculateReleases ==
    /\ pc = "calc"
    /\ releases' = calculateReleases(cfg, packageCommits, policy)
    /\ pc' = "done"
    /\ UNCHANGED <<nCommits, parents, rawConfig, policy, cfg, info, base, commits,
                   packageCommits, err, queries, failure, filePath, owner>>
    /\ UNCHANGED <<callVars, applyVars>>

\* FindPackageForPath, called on its own
FindOwner ==
    /\ pc = "find"
    /\ owner' = FindPackageForPath(cfg, filePath)
    /\ pc' = "found"
    /\ UNCHANGED <<nCommits, parents, rawConfig, policy, cfg, info, base, commits,
                   packageCommits, releases, err, queries, failure, filePath>>
    /\ UNCHANGED <<callVars, applyVars>>

\* The orders in which a range over the map c.Packages can visit its keys.
IterationOrders(c) ==
    {order \in [1..Cardinality(DOMAIN c.Packages) -> DOMAIN c.Packages] :
        \A i, j \in DOMAIN order : i # j => order[i] # order[j]}

\* FindPackageForPath, called on its own, the range over the map visiting
\* the keys in any order
FindOwnerInAnyOrder ==
    /\ pc = "find"
    /\ \E order \in IterationOrders(cfg) :
          owner' = FindPackageLoop(cfg, normalizePath(filePath), order, NilPackage, 0)
    /\ pc' = "found"
    /\ UNCHANGED <<nCommits, parents, rawConfig, policy, cfg, info, base, commits,
                   packageCommits, releases, err, queries, failure, filePath>>
    /\ UNCHANGED <<callVars, applyVars>>

\* GetCommitsInRange, one turn of its loop over the log: the commit is
\* parsed from its subject line, gets its changed files (one of package a,
\* one of package b) and is appended.
ParseLoggedCommit ==
    /\ pc = "parseCommit"
    /\ commits' = Append(commits,
                      [parseCommit(Len(commits) + 1, subject)
                          EXCEPT !.Files = <<FileAX, FileBX>>])
    /\ pc' = "map"
    /\ UNCHANGED <<nCommits, parents, rawConfig, policy, cfg, info, base, packageCommits,
                   releases, err, queries, failure, filePath, owner>>
    /\ UNCHANGED <<callVars, applyVars>>

\* v.Bump(bumpType, treatPreMajorAsMinor), called on its own
CallBump ==
    /\ pc = "bump"
    /\ result' = Bump(ver, bumpArg, policy)
    /\ pc' = "bumped"
    /\ UNCHANGED <<analysisVars, applyVars, policy, subject, ver, other, bumpArg, typeArg, text>>

\* v.Compare(other), called on its own
CallCompare ==
    /\ pc = "compare"
    /\ result' = Compare(ver, other)
    /\ pc' = "compared"
    /\ UNCHANGED <<analysisVars, applyVars, policy, subject, ver, other, bumpArg, typeArg, text>>

\* v.String(), called on its own
CallString ==
    /\ pc = "format"
    /\ text' = String(ver)
    /\ pc' = "parse"
    /\ UNCHANGED <<analysisVars, applyVars, policy, subject, ver, other, bumpArg, typeArg, result>>

\* version.Parse(s), called on the string that v.String() returned
CallParse ==
    /\ pc = "parse"
    /\ result' = Parse(text)
    /\ pc' = "parsed"
    /\ UNCHANGED <<analysisVars, applyVars, policy, subject, ver, other, bumpArg, typeArg, text>>

\* CommitTypeToBump(commitType), called on its own
CallCommitTypeToBump ==
    /\ pc = "type"
    /\ result' = CommitTypeToBump(typeArg)
    /\ pc' = "typed"
    /\ UNCHANGED <<analysisVars, applyVars, policy, subject, ver, other, bumpArg, typeArg, text>>

(***************************************************************************)
(* internal/release Apply, one action per file it updates.  Every update   *)
(* can fail: before the file is written (it stays as it was) or inside     *)
(* os.WriteFile (it stays as it was or is left truncated).                 *)
(***************************************************************************)
\* Apply, up to the loop over result.Releases.  With dryRun the loop skips
\* every release and the manifest is not written.
ApplyBeginIgnoresDryRun ==
    /\ pc = "done"
    /\ err = ""
    /\ before' = disk
    /\ IF Len(releases) = 0
       THEN /\ pc' = "applied"
            /\ UNCHANGED relIdx
       ELSE /\ pc' = "version"
            /\ relIdx' = 1
    /\ UNCHANGED <<analysisVars, policy, callVars, dryRun, disk, generated>>

ApplyBegin ==
    /\ pc = "done"
    /\ err = ""
    /\ before' = disk
    /\ IF Len(releases) = 0 \/ dryRun
       THEN /\ pc' = "applied"
            /\ UNCHANGED relIdx
       ELSE /\ pc' = "version"
            /\ relIdx' = 1
    /\ UNCHANGED <<analysisVars, policy, callVars, dryRun, disk, generated>>

\* Apply, the loop over result.Releases: updateVersionFile
UpdateVersionFile ==
    /\ pc = "version"
    /\ LET r == releases[relIdx]
           path == r.Package.Path
           existing == ReadFile(disk.Version, path, NoVersionFile)
       IN  \/ /\ disk' = [disk EXCEPT !.Version =
                               WriteFile(@, path, FormatVersionFile(r.NewVersion, existing))]
              /\ pc' = "changelog"
              /\ UNCHANGED err
           \/ /\ \/ UNCHANGED disk
                 \/ disk' = [disk EXCEPT !.Version = WriteFile(@, path, TruncatedVersionFile)]
              /\ err' = "failed to update VERSION"
              /\ pc' = "applied"
    /\ UNCHANGED <<nCommits, parents, rawConfig, policy, cfg, info, base, commits,
                   packageCommits, releases, queries, failure, filePath, owner>>
    /\ UNCHANGED <<callVars, dryRun, relIdx, before, generated>>

\* Apply, the end of one turn of the loop over result.Releases.
ContinueLoop ==
    IF relIdx < Len(releases)
    THEN /\ relIdx' = relIdx + 1
         /\ pc' = "version"
    ELSE /\ relIdx' = relIdx
         /\ pc' = "manifest"

\* Apply, the loop over result.Releases: updateChangelog
UpdateChangelog ==
    /\ pc = "changelog"
    /\ LET r == releases[relIdx]
           path == r.Package.Path
           existing == ReadFile(disk.Changelog, path, NoChangelogFile)
       IN  IF Len(r.Commits) = 0
           THEN /\ ContinueLoop
                /\ UNCHANGED <<generated, disk, err>>
           ELSE \/ /\ generated' = Append(generated, ChangelogEntry(r))
                   /\ disk' = [disk EXCEPT !.Changelog =
                                   WriteFile(@, path, Prepend(existing, ChangelogEntry(r)))]
                   /\ ContinueLoop
                   /\ UNCHANGED err
                \* the file cannot be read
                \/ /\ UNCHANGED <<generated, disk, relIdx>>
                   /\ err' = "failed to update CHANGELOG"
                   /\ pc' = "applied"
                \* os.MkdirAll or os.WriteFile fails
                \/ /\ generated' = Append(generated, ChangelogEntry(r))
                   /\ \/ UNCHANGED disk
                      \/ disk' = [disk EXCEPT !.Changelog =
                                      WriteFile(@, path, TruncatedChangelogFile)]
                   /\ UNCHANGED relIdx
                   /\ err' = "failed to update CHANGELOG"
                   /\ pc' = "applied"
    /\ UNCHANGED <<nCommits, parents, rawConfig, policy, cfg, info, base, commits,
                   packageCommits, releases, queries, failure, filePath, owner>>
    /\ UNCHANGED <<callVars, dryRun, before>>

\* Apply: updateManifest, and the return of Apply.  A truncated manifest
\* holds no entry.
UpdateManifest ==
    /\ pc = "manifest"
    /\ \/ /\ disk' = [disk EXCEPT !.Manifest =
                           UpdateManifestLoop(@, ManifestUpdates(releases),
                                              DOMAIN ManifestUpdates(releases))]
          /\ UNCHANGED err
       \/ /\ \/ UNCHANGED disk
             \/ disk' = [disk EXCEPT !.Manifest = <<>>]
          /\ err' = "failed to update manifest"
    /\ pc' = "applied"
    /\ UNCHANGED <<nCommits, parents, rawConfig, policy, cfg, info, base, commits,
                   packageCommits, releases, queries, failure, filePath, owner>>
    /\ UNCHANGED <<callVars, dryRun, relIdx, before, generated>>

(***************************************************************************)
(* Inputs                                                                  *)
(***************************************************************************)
\* The files of a repository without packages.
NoDisk == [Version |-> <<>>, Changelog |-> <<>>, Manifest |-> <<>>]

\* Apply is not being called.
NoApply ==
    /\ dryRun = FALSE
    /\ relIdx = 0
    /\ disk = NoDisk
    /\ before = NoDisk
    /\ generated = <<>>

\* No function is being called on its own.
NoCalls ==
    /\ subject = <<>>
    /\ ver = NoVersion
    /\ other = NoVersion
    /\ bumpArg = None
    /\ typeArg = ""
    /\ text = <<>>
    /\ result = NoVersion

\* The parent lists HEAD can have: distinct older commits, the first two in
\* any order (HEAD^1 and HEAD^2 are the first and the second of the list).
\* The queries ask of the further parents only what is reachable from them,
\* so one order of them is enough.
ParentLists(c) ==
    {ps \in SeqsUpTo(1..(c - 1), MaxParents) :
        /\ \A i, j \in DOMAIN ps : i # j => ps[i] # ps[j]
        /\ \A i, j \in DOMAIN ps : (2 < i /\ i < j) => ps[i] < ps[j]}

\* The parent lists of the commits below HEAD.  The queries only ever ask
\* which commits are reachable from them, so one order per set is enough.
InnerParentLists(c) ==
    {ps \in SeqsUpTo(1..(c - 1), MaxParents) :
        \A i, j \in DOMAIN ps : i < j => ps[i] < ps[j]}

\* The commit graphs of the n commits below HEAD.
RECURSIVE Graphs(_)
Graphs(n) ==
    IF n = 0 THEN {<<>>}
    ELSE {Append(g, ps) : g \in Graphs(n - 1), ps \in InnerParentLists(n)}

\* The repositories of n commits: every commit is part of the history of HEAD.
Repositories(n) ==
    {r \in {Append(g, ps) : g \in Graphs(n - 1), ps \in ParentLists(n)} :
        AncestorsIn(r, n) = 1..n}

PathA == <<"a">>
PathAB == <<"a", "/", "b">>
PathB == <<"b">>
FileAY == <<"a", "/", "y">>

V100 == <<"1", ".", "0", ".", "0">>
V010 == <<"0", ".", "1", ".", "0">>
V234 == <<"2", ".", "3", ".", "4">>
VBad == <<"x">>

\* The "packages" object of release-please-config.json in Spec and SpecCalc:
\* a package, a package nested in it, and a sibling.
ThreePackages ==
    (PathA :> [Component |-> "ca"]) @@ (PathAB :> [Component |-> "cab"])
        @@ (PathB :> [Component |-> "cb"])

LinkedPlugin(name, components) ==
    [Type |-> "linked-versions", GroupName |-> name, Components |-> components]

\* The "plugins" arrays: every component is in at most one group.
PluginChoices ==
    { <<>>,
      <<LinkedPlugin("g", {"ca", "cb"})>>,
      <<LinkedPlugin("g", {"cab", "cb", "ghost"})>>,
      <<[Type |-> "sentence-case", GroupName |-> "", Components |-> {}],
        LinkedPlugin("g", {"ca", "cab", "cb"})>> }

\* The manifests: equal versions, different versions, and a missing and an
\* unparsable entry.
ManifestChoices ==
    { (PathA :> V100) @@ (PathAB :> V100) @@ (PathB :> V100),
      (PathA :> V100) @@ (PathAB :> V010) @@ (PathB :> V234),
      (PathAB :> VBad) @@ (PathB :> V010) }

RawConfig(packages, plugins, manifest) ==
    [Readable |-> TRUE, Packages |-> packages, Plugins |-> plugins, Manifest |-> manifest]

\* The configurations on disk in Spec: a good one, an unreadable one and
\* one whose package has no component.
AnalyzeConfigs ==
    { RawConfig(ThreePackages, <<LinkedPlugin("g", {"ca", "cb"})>>,
                (PathA :> V100) @@ (PathAB :> V010)),
      [RawConfig(ThreePackages, <<>>, <<>>) EXCEPT !.Readable = FALSE],
      RawConfig((PathA :> [Component |-> ""]), <<>>, <<>>) }

\* What parseCommit and getChangedFiles can yield for one commit in SpecCalc:
\* a commit with two files of one package, one in the nested package, one
\* with a file of no package, and one that touches two packages.
CalcShapes ==
    {[Type |-> k[1], IsBreaking |-> k[2], Files |-> fs] :
        k \in {<<"feat", FALSE>>, <<"fix", FALSE>>, <<"chore", FALSE>>, <<"chore", TRUE>>},
        fs \in {<<FileAX, FileAY>>, <<FileABX>>, <<FileBX, FileX>>, <<FileAX, FileBX>>}}

\* The keys of the "packages" object in SpecPath: directory names made of
\* "a", with "/" anywhere (Load normalizes the keys).  The file paths below
\* also hold the letter "b", for the names no package has.
RawKeys == SeqsUpTo({"a", "/"}, MaxKeyLen)

\* The file paths git diff-tree --name-only prints: names separated by "/".
GitPaths ==
    {f \in SeqsUpTo({"a", "b", "/"}, MaxFileLen) :
        /\ f # <<>>
        /\ f[1] # "/"
        /\ f[Len(f)] # "/"
        /\ \A i \in 1..(Len(f) - 1) : ~(f[i] = "/" /\ f[i + 1] = "/")}

(***************************************************************************)
(* Spec: Analyze on a repository                                           *)
(***************************************************************************)
Init ==
    /\ nCommits \in 1..MaxCommits
    /\ parents \in Repositories(nCommits)
    /\ rawConfig \in AnalyzeConfigs
    /\ policy = TRUE
    /\ pc = "load"
    /\ cfg = NoConfig
    /\ info = NoInfo
    /\ base = 0
    /\ commits = <<>>
    /\ packageCommits = <<>>
    /\ releases = <<>>
    /\ err = ""
    /\ queries = <<>>
    /\ failure = ""
    /\ filePath = <<>>
    /\ owner = NilPackage
    /\ NoCalls
    /\ NoApply

Next ==
    \/ LoadConfig
    \/ ResolveHead
    \/ ResolveSecondParent
    \/ ResolveFirstParent
    \/ ComputeMergeBase
    \/ GetCommits
    \/ MapCommits
    \/ CalculateReleases

Spec == Init /\ [][Next]_vars

(***************************************************************************)
(* SpecCalc: the calculator of Analyze on a commit list                    *)
(***************************************************************************)
\* The configurations on disk in SpecCalc.
CalcConfigs ==
    {RawConfig(ThreePackages, plugins, manifest) :
        plugins \in PluginChoices, manifest \in ManifestChoices}

InitCalcWith(configs, policies) ==
    /\ nCommits = 0
    /\ parents = <<>>
    /\ rawConfig \in configs
    /\ policy \in policies
    /\ pc = "map"
    /\ cfg = Load(rawConfig)
    /\ info = NoInfo
    /\ base = 0
    /\ \E shapes \in SeqsUpTo(CalcShapes, MaxRange) :
          commits = [i \in DOMAIN shapes |-> MakeCommit(i, shapes[i])]
    /\ packageCommits = <<>>
    /\ releases = <<>>
    /\ err = ""
    /\ queries = <<>>
    /\ failure = ""
    /\ filePath = <<>>
    /\ owner = NilPackage
    /\ NoCalls
    /\ NoApply

InitCalc == InitCalcWith(CalcConfigs, BOOLEAN)

NextCalc ==
    \/ MapCommits
    \/ CalculateReleases

SpecCalc == InitCalc /\ [][NextCalc]_vars

(***************************************************************************)
(* SpecOrder: the calculator of Analyze on a commit list, for the          *)
(* comparison of every order of the list: two configurations, one without  *)
(* and one with a linked group, over packages at 1.0.0, 0.1.0 and 2.3.4.   *)
(***************************************************************************)
OrderConfigs ==
    {RawConfig(ThreePackages, plugins,
               (PathA :> V100) @@ (PathAB :> V010) @@ (PathB :> V234)) :
        plugins \in {<<>>, <<LinkedPlugin("g", {"ca", "cb"})>>}}

InitOrder == InitCalcWith(OrderConfigs, {TRUE})

NextOrder ==
    \/ MapCommits
    \/ CalculateReleases

SpecOrder == InitOrder /\ [][NextOrder]_vars

(***************************************************************************)
(* SpecPath: FindPackageForPath on a package table                         *)
(***************************************************************************)
InitPath ==
    /\ nCommits = 0
    /\ parents = <<>>
    /\ \E keys \in SeqsUpTo(RawKeys, MaxPkgs) :
          \* each set of keys once (listed in the order of their paths); no
          \* two keys of the object normalize to the same path
          /\ \A i, j \in DOMAIN keys :
                i < j => StrLess(normalizePath(keys[i]), normalizePath(keys[j]))
          /\ rawConfig = RawConfig([k \in Range(keys) |-> [Component |-> "c"]], <<>>, <<>>)
    /\ policy = TRUE
    /\ pc = "find"
    /\ cfg = Load(rawConfig)
    /\ info = NoInfo
    /\ base = 0
    /\ commits = <<>>
    /\ packageCommits = <<>>
    /\ releases = <<>>
    /\ err = ""
    /\ queries = <<>>
    /\ failure = ""
    /\ filePath \in GitPaths
    /\ owner = NilPackage
    /\ NoCalls
    /\ NoApply

NextPath == FindOwner

SpecPath == InitPath /\ [][NextPath]_vars

(***************************************************************************)
(* SpecIter: FindPackageForPath on a package table, the map visited in any *)
(* order                                                                   *)
(***************************************************************************)
\* The keys of the "packages" object in SpecIter: one key of RawKeys for
\* each path that Load can store (the loop reads the stored paths only).
IterKeys ==
    {CHOOSE k \in RawKeys : normalizePath(k) = p : p \in {normalizePath(k) : k \in RawKeys}}

InitIter ==
    /\ nCommits = 0
    /\ parents = <<>>
    /\ \E keys \in SeqsUpTo(IterKeys, MaxPkgs) :
          /\ \A i, j \in DOMAIN keys :
                i < j => StrLess(normalizePath(keys[i]), normalizePath(keys[j]))
          /\ rawConfig = RawConfig([k \in Range(keys) |-> [Component |-> "c"]], <<>>, <<>>)
    /\ policy = TRUE
    /\ pc = "find"
    /\ cfg = Load(rawConfig)
    /\ info = NoInfo
    /\ base = 0
    /\ commits = <<>>
    /\ packageCommits = <<>>
    /\ releases = <<>>
    /\ err = ""
    /\ queries = <<>>
    /\ failure = ""
    /\ filePath \in GitPaths
    /\ owner = NilPackage
    /\ NoCalls
    /\ NoApply

NextIter == FindOwnerInAnyOrder

SpecIter == InitIter /\ [][NextIter]_vars

(***************************************************************************)
(* SpecCommit: parseCommit on a subject line, then the calculator of       *)
(* Analyze on the commit list that ends with the parsed commit             *)
(***************************************************************************)
\* The pieces subject lines are made of: two words, punctuation and a blank.
Pieces ==
    {<<"f", "e", "a", "t">>, <<"F", "i", "x">>, <<"(">>, <<")">>, <<"!">>, <<":">>, <<" ">>}

RECURSIVE Flatten(_)
Flatten(ps) == IF ps = <<>> THEN <<>> ELSE Head(ps) \o Flatten(Tail(ps))

Subjects == {Flatten(ps) : ps \in SeqsUpTo(Pieces, MaxPieces)}

\* The commit "fix: feat" that changed b/x, logged before the parsed one.
EarlierFix ==
    [parseCommit(1, <<"f", "i", "x", ":", " ", "f", "e", "a", "t">>)
        EXCEPT !.Files = <<FileBX>>]

InitCommit ==
    /\ nCommits = 0
    /\ parents = <<>>
    /\ rawConfig = RawConfig(ThreePackages, <<>>,
                       (PathA :> V100) @@ (PathAB :> V010) @@ (PathB :> V234))
    /\ policy = TRUE
    /\ pc = "parseCommit"
    /\ cfg = Load(rawConfig)
    /\ info = NoInfo
    /\ base = 0
    /\ commits = <<EarlierFix>>
    /\ packageCommits = <<>>
    /\ releases = <<>>
    /\ err = ""
    /\ queries = <<>>
    /\ failure = ""
    /\ filePath = <<>>
    /\ owner = NilPackage
    /\ subject \in Subjects
    /\ NoApply
    /\ ver = NoVersion
    /\ other = NoVersion
    /\ bumpArg = None
    /\ typeArg = ""
    /\ text = <<>>
    /\ result = NoVersion

NextCommit ==
    \/ ParseLoggedCommit
    \/ MapCommits
    \/ CalculateReleases

SpecCommit == InitCommit /\ [][NextCommit]_vars

(***************************************************************************)
(* SpecRelease: the calculator of Analyze on one package, for the version  *)
(* stored in .release-please-manifest.json                                 *)
(***************************************************************************)
\* The characters of the stored versions.
VersionChars == {"0", "1", ".", "v"}

\* The manifests on disk: without an entry for the package, or with any
\* string as its entry (the empty string too).
StoredManifests ==
    {<<>>} \cup {(PathA :> s) : s \in SeqsUpTo(VersionChars, MaxVersionLen)}

\* The configurations on disk in SpecRelease: the one package a.
ReleaseConfigs ==
    {RawConfig((PathA :> [Component |-> "ca"]), <<>>, manifest) :
        manifest \in StoredManifests}

\* What parseCommit and getChangedFiles can yield for the one commit of
\* SpecRelease, which changed a/x.
ReleaseShapes ==
    {[Type |-> k[1], IsBreaking |-> k[2], Files |-> <<FileAX>>] :
        k \in {<<"feat", FALSE>>, <<"fix", FALSE>>, <<"chore", FALSE>>, <<"chore", TRUE>>}}

InitRelease ==
    /\ nCommits = 0
    /\ parents = <<>>
    /\ rawConfig \in ReleaseConfigs
    /\ policy \in BOOLEAN
    /\ pc = "map"
    /\ cfg = Load(rawConfig)
    /\ info = NoInfo
    /\ base = 0
    /\ \E shape \in ReleaseShapes : commits = <<MakeCommit(1, shape)>>
    /\ packageCommits = <<>>
    /\ releases = <<>>
    /\ err = ""
    /\ queries = <<>>
    /\ failure = ""
    /\ filePath = <<>>
    /\ owner = NilPackage
    /\ NoCalls
    /\ NoApply

NextRelease ==
    \/ MapCommits
    \/ CalculateReleases

SpecRelease == InitRelease /\ [][NextRelease]_vars

(***************************************************************************)
(* SpecNorm: FindPackageForPath on a table whose keys, and a file path     *)
(* that, are written with "./" and "/" around them                         *)
(***************************************************************************)
\* The keys of the "packages" object in SpecNorm: any string of "a", "/" and
\* "." that is not empty.
RawPaths == SeqsUpTo({"a", "/", "."}, MaxRawLen) \ {<<>>}

\* The file paths in SpecNorm: a path as git diff-tree prints it, as it is
\* or with "./" or "/" before it, with or without "/" after it.
RawFiles ==
    {pre \o f \o suf :
        pre \in {<<>>, <<".", "/">>, <<"/">>},
        f \in {g \in GitPaths : Len(g) <= MaxRawLen /\ \A i \in DOMAIN g : g[i] # "b"},
        suf \in {<<>>, <<"/">>}}

\* The "packages" objects of SpecNorm: one package under any key, alone or
\* next to the package a/a.
NormTables ==
    {(k :> [Component |-> "ca"]) : k \in RawPaths}
        \cup {(k :> [Component |-> "ca"]) @@ (<<"a", "/", "a">> :> [Component |-> "cb"]) :
                 k \in {r \in RawPaths : normalizePath(r) # <<"a", "/", "a">>}}

InitNorm ==
    /\ nCommits = 0
    /\ parents = <<>>
    /\ \E table \in NormTables : rawConfig = RawConfig(table, <<>>, <<>>)
    /\ policy = TRUE
    /\ pc = "find"
    /\ cfg = Load(rawConfig)
    /\ info = NoInfo
    /\ base = 0
    /\ commits = <<>>
    /\ packageCommits = <<>>
    /\ releases = <<>>
    /\ err = ""
    /\ queries = <<>>
    /\ failure = ""
    /\ filePath \in RawFiles
    /\ owner = NilPackage
    /\ NoCalls
    /\ NoApply

NextNorm == FindOwner

SpecNorm == InitNorm /\ [][NextNorm]_vars

(***************************************************************************)
(* SpecApply: the calculator of Analyze on a commit list, then Apply on    *)
(* its result                                                              *)
(***************************************************************************)
\* The configurations on disk in SpecApply: the three packages, a and b
\* linked or not, with a manifest entry for each or none for b.
ApplyConfigs ==
    {RawConfig(ThreePackages, plugins, manifest) :
        plugins \in {<<>>, <<LinkedPlugin("g", {"ca", "cb"})>>},
        manifest \in {(PathA :> V100) @@ (PathAB :> V010) @@ (PathB :> V234),
                      (PathA :> V100) @@ (PathAB :> V010)}}

\* What parseCommit and getChangedFiles can yield for one commit in SpecApply.
ApplyShapes ==
    {[Type |-> "feat", IsBreaking |-> FALSE, Files |-> <<FileAX, FileAY>>],
     [Type |-> "fix", IsBreaking |-> FALSE, Files |-> <<FileABX>>],
     [Type |-> "feat", IsBreaking |-> FALSE, Files |-> <<FileBX>>],
     [Type |-> "chore", IsBreaking |-> FALSE, Files |-> <<FileBX>>]}

\* The files of the repository before Apply: the manifest that Load read;
\* with "marked" and "plain" every package has a VERSION file that holds its
\* version of the manifest (0.0.0 without one), with or without the marker,
\* and with "marked" a CHANGELOG with the entry of that version; with
\* "bare" no package has either file.
DiskOf(raw, kind) ==
    LET c == Load(raw)
        paths == IF kind = "bare" THEN {} ELSE DOMAIN c.Packages
        stored(p) == IF c.Packages[p].CurrentVersion = <<>>
                     THEN <<"0", ".", "0", ".", "0">> ELSE c.Packages[p].CurrentVersion
    IN  [Version   |-> [p \in paths |->
                          [Exists |-> TRUE, Version |-> stored(p), Marker |-> kind = "marked"]],
         Changelog |-> [p \in (IF kind = "marked" THEN paths ELSE {}) |->
                          [Exists |-> TRUE,
                           Entries |-> <<[Version |-> stored(p), Commits |-> <<>>,
                                          Component |-> c.Packages[p].Component,
                                          PrevVersion |-> <<>>]>>]],
         Manifest  |-> raw.Manifest]

InitApply ==
    /\ nCommits = 0
    /\ parents = <<>>
    /\ rawConfig \in ApplyConfigs
    /\ policy = TRUE
    /\ pc = "map"
    /\ cfg = Load(rawConfig)
    /\ info = NoInfo
    /\ base = 0
    /\ \E shapes \in SeqsUpTo(ApplyShapes, MaxApplyCommits) :
          commits = [i \in DOMAIN shapes |-> MakeCommit(i, shapes[i])]
    /\ packageCommits = <<>>
    /\ releases = <<>>
    /\ err = ""
    /\ queries = <<>>
    /\ failure = ""
    /\ filePath = <<>>
    /\ owner = NilPackage
    /\ NoCalls
    /\ dryRun \in BOOLEAN
    /\ relIdx = 0
    /\ \E kind \in {"marked", "plain", "bare"} : disk = DiskOf(rawConfig, kind)
    /\ before = disk
    /\ generated = <<>>

NextApply ==
    \/ MapCommits
    \/ CalculateReleases
    \/ ApplyBegin
    \/ UpdateVersionFile
    \/ UpdateChangelog
    \/ UpdateManifest

SpecApply == InitApply /\ [][NextApply]_vars

(***************************************************************************)
(* SpecVersion: the functions of internal/version, each called on its own  *)
(***************************************************************************)
\* Version structs with fields up to n, a prerelease of ids and a build of builds.
Versions(n, ids, builds) ==
    [Ok : {TRUE}, Major : 0..n, Minor : 0..n, Patch : 0..n, Prerelease : ids, Build : builds]

\* Prerelease strings that differ in length, in the first and in a later character.
OrderedIds == SeqsUpTo({"0", "a"}, MaxIdLen)

\* Prerelease and build strings over the characters semverRegex accepts.
AcceptedIds == SeqsUpTo({"0", "a", "-", "."}, MaxIdLen)

Builds == {<<>>, <<"b">>}

\* The commit types of the conventional-commits table, in lower and in other
\* case, the empty type and types the table does not know.
CommitTypes ==
    {"feat", "fix", "perf", "chore", "docs", "style", "refactor", "test", "build", "ci",
     "", "wip", "feature", "fixes", "revert", "major", "breaking"} \cup DOMAIN LowerCase

\* The variables of Analyze and FindPackageForPath at rest.
NoAnalysis ==
    /\ nCommits = 0
    /\ parents = <<>>
    /\ rawConfig = RawConfig(<<>>, <<>>, <<>>)
    /\ cfg = NoConfig
    /\ info = NoInfo
    /\ base = 0
    /\ commits = <<>>
    /\ packageCommits = <<>>
    /\ releases = <<>>
    /\ err = ""
    /\ queries = <<>>
    /\ failure = ""
    /\ filePath = <<>>
    /\ owner = NilPackage

InitVersion ==
    /\ NoAnalysis
    /\ NoApply
    /\ subject = <<>>
    /\ \/ /\ pc = "bump"
          /\ ver \in Versions(MaxField, OrderedIds, Builds)
          /\ bumpArg \in {None, Patch, Minor, Major}
          /\ policy \in BOOLEAN
          /\ other = NoVersion
          /\ typeArg = ""
       \/ /\ pc = "compare"
          /\ ver \in Versions(MaxField, OrderedIds, Builds)
          /\ other \in Versions(MaxField, OrderedIds, Builds)
          /\ bumpArg = None
          /\ policy = TRUE
          /\ typeArg = ""
       \/ /\ pc = "format"
          /\ ver \in Versions(MaxNum, AcceptedIds, Builds)
          /\ other = NoVersion
          /\ bumpArg = None
          /\ policy = TRUE
          /\ typeArg = ""
       \/ /\ pc = "type"
          /\ typeArg \in CommitTypes
          /\ ver = NoVersion
          /\ other = NoVersion
          /\ bumpArg = None
          /\ policy = TRUE
    /\ text = <<>>
    /\ result = NoVersion

NextVersion ==
    \/ CallBump
    \/ CallCompare
    \/ CallString
    \/ CallParse
    \/ CallCommitTypeToBump

SpecVersion == InitVersion /\ [][NextVersion]_vars

(***************************************************************************)
(* SpecStored: the calculator of Analyze on a commit list, for packages    *)
(* with any stored version                                                 *)
(***************************************************************************)
\* The versions of the manifest: versions with and without prerelease and
\* build, as String writes them, one with the prefix v, none and an
\* unparsable one.
StoredVersions ==
    {String(v) : v \in Versions(MaxField, {<<>>, <<"a">>}, Builds)}
        \cup {<<>>, VBad, <<"v">> \o V100}

\* The configurations on disk in SpecStored: a and b linked or not, a with
\* any stored version.
StoredConfigs ==
    {RawConfig(ThreePackages, plugins,
               (PathA :> sa) @@ (PathAB :> V010) @@ (PathB :> sb)) :
        plugins \in {<<>>, <<LinkedPlugin("g", {"ca", "cb"})>>},
        sa \in StoredVersions,
        sb \in {V234, <<"0", ".", "1", ".", "0", "-", "a">>}}

InitStored ==
    /\ nCommits = 0
    /\ parents = <<>>
    /\ rawConfig \in StoredConfigs
    /\ policy \in BOOLEAN
    /\ pc = "map"
    /\ cfg = Load(rawConfig)
    /\ info = NoInfo
    /\ base = 0
    /\ \E shapes \in SeqsUpTo(ApplyShapes, MaxApplyCommits) :
          commits = [i \in DOMAIN shapes |-> MakeCommit(i, shapes[i])]
    /\ packageCommits = <<>>
    /\ releases = <<>>
    /\ err = ""
    /\ queries = <<>>
    /\ failure = ""
    /\ filePath = <<>>
    /\ owner = NilPackage
    /\ NoCalls
    /\ NoApply

NextStored ==
    \/ MapCommits
    \/ CalculateReleases

SpecStored == InitStored /\ [][NextStored]_vars

(***************************************************************************)
(* SpecGroups: the calculator of Analyze on a commit list, for any         *)
(* "plugins" array that lists each component at most once                  *)
(***************************************************************************)
\* The "packages" objects of SpecGroups: three components, or one shared by
\* the packages a and b.
GroupPackages ==
    {ThreePackages,
     (PathA :> [Component |-> "ca"]) @@ (PathAB :> [Component |-> "cab"])
         @@ (PathB :> [Component |-> "ca"])}

\* The linked-versions plugins of SpecGroups: any name, the empty one too,
\* and any components.
GroupPlugins ==
    {LinkedPlugin(name, components) :
        name \in {"g", "h", ""}, components \in SUBSET {"ca", "cab", "cb"}}

\* The "plugins" arrays of SpecGroups: every component is listed by at most
\* one plugin.
GroupPluginChoices ==
    {ps \in SeqsUpTo(GroupPlugins, 2) :
        \A i, j \in DOMAIN ps : i # j => ps[i].Components \cap ps[j].Components = {}}

GroupConfigs ==
    {RawConfig(packages, plugins, (PathA :> V100) @@ (PathAB :> V010) @@ (PathB :> V234)) :
        packages \in GroupPackages, plugins \in GroupPluginChoices}

InitGroups ==
    /\ nCommits = 0
    /\ parents = <<>>
    /\ rawConfig \in GroupConfigs
    /\ policy = TRUE
    /\ pc = "map"
    /\ cfg = Load(rawConfig)
    /\ info = NoInfo
    /\ base = 0
    /\ \E shapes \in SeqsUpTo(ApplyShapes, MaxApplyCommits) :
          commits = [i \in DOMAIN shapes |-> MakeCommit(i, shapes[i])]
    /\ packageCommits = <<>>
    /\ releases = <<>>
    /\ err = ""
    /\ queries = <<>>
    /\ failure = ""
    /\ filePath = <<>>
    /\ owner = NilPackage
    /\ NoCalls
    /\ NoApply

NextGroups ==
    \/ MapCommits
    \/ CalculateReleases

SpecGroups == InitGroups /\ [][NextGroups]_vars

(***************************************************************************)
(* Properties of Analyze on a repository (Spec)                            *)
(***************************************************************************)
\* The hashes of the commit list of Analyze.
ListedCommits == {commits[i].SHA : i \in DOMAIN commits}

\* Analyze has returned a result for a head it classified as a merge.
MergeAnalyzed == pc = "done" /\ err = "" /\ info.IsMerge

\* C1: when the head is a merge commit, every commit reachable from the head
\* but not from its first parent, the head itself excepted, is in the commit
\* list of Analyze.
C1_MergedCommitsListed ==
    MergeAnalyzed =>
        (Ancestors(HEAD) \ Ancestors(parents[HEAD][1])) \ {HEAD} \subseteq ListedCommits

\* C2: when the head is a merge commit, every commit in the commit list of
\* Analyze is reachable from the second parent and not from the first
\* parent, and the merge commit is not in the list.
C2_OnlyMergedBranchListed ==
    MergeAnalyzed =>
        /\ ListedCommits \subseteq Ancestors(parents[HEAD][2]) \ Ancestors(parents[HEAD][1])
        /\ HEAD \notin ListedCommits

\* C10: when the head has no parent and no second parent (the repository has
\* one commit), Analyze, once the configuration is loaded and the head is
\* resolved, returns no error, an empty commit list and no release.
C10_SingleCommitRepository ==
    (pc = "done" /\ Len(parents[HEAD]) = 0 /\ info.HeadSHA = HEAD) =>
        /\ err = ""
        /\ commits = <<>>
        /\ releases = <<>>

\* C10: Analyze ran to its end on a repository of one commit.
C10_Witness ==
    /\ pc = "done"
    /\ Len(parents[HEAD]) = 0
    /\ info.HeadSHA = HEAD
    /\ queries = <<"rev-parse HEAD", "rev-parse HEAD^2", "log">>

\* C11: once the log query or a changed-file query has failed for a reason
\* of its own, Analyze has returned an error (and went no further).
C11_RangeFailureReturned ==
    failure \in {"log", "diff-tree"} => (pc = "done" /\ err # "")

\* The queries of AnalyzeHead, in the order of its code.
AnalyzeHeadQueries ==
    <<"rev-parse HEAD", "rev-parse HEAD^2", "rev-parse HEAD^1", "merge-base">>

IsHeadQuery(q) == q # "log"

\* The queries AnalyzeHead has issued so far.
HeadQueries == SelectSeq(queries, IsHeadQuery)

\* C26: AnalyzeHead resolves the head, the second parent, the first parent
\* and the merge-base, in this order.  A failure of the first query is
\* returned as an error; a failure of the second is no error and gives
\* IsMerge = false with no MergeBase and no MergeHead; once the second parent
\* is resolved IsMerge is true and MergeHead the second parent, a failure of
\* the third or the fourth query is returned as an error, and MergeBase is a
\* merge-base of the first and the second parent.
C26_AnalyzeHeadProtocol ==
    /\ HeadQueries = SubSeq(AnalyzeHeadQueries, 1, Len(HeadQueries))
    /\ failure \in {"rev-parse HEAD", "rev-parse HEAD^1", "merge-base"}
           => (pc = "done" /\ err # "")
    /\ (queries # <<>> /\ queries[Len(queries)] = "rev-parse HEAD^2")
           => /\ err = ""
              /\ \/ /\ pc = "range"
                    /\ ~info.IsMerge
                    /\ info.MergeBase = 0
                    /\ info.MergeHead = 0
                    /\ (failure = "rev-parse HEAD^2" \/ Len(parents[HEAD]) < 2)
                 \/ /\ pc = "parent1"
                    /\ info.IsMerge
                    /\ info.MergeHead = parents[HEAD][2]
    /\ (queries # <<>> /\ queries[Len(queries)] = "merge-base" /\ err = "")
           => /\ pc = "range"
              /\ info.IsMerge
              /\ info.MergeHead = parents[HEAD][2]
              /\ info.MergeBase \in MergeBases(parents[HEAD][1], parents[HEAD][2])

\* C26: AnalyzeHead returned the merge information of a merge commit after
\* its four queries.
C26_Witness ==
    /\ pc = "range"
    /\ queries = AnalyzeHeadQueries
    /\ info.IsMerge
    /\ info.MergeHead = parents[HEAD][2]
    /\ info.MergeBase # 0

\* The configuration on disk cannot be trusted: a file is unreadable or a
\* package has no component name.
UntrustedConfig ==
    \/ ~rawConfig.Readable
    \/ \E k \in DOMAIN rawConfig.Packages : rawConfig.Packages[k].Component = ""

\* C12: no git query is issued before the configuration is loaded, and none
\* at all when loading fails, in which case Analyze returns an error.
C12_ConfigBeforeQueries ==
    /\ pc = "load" => queries = <<>>
    /\ UntrustedConfig => queries = <<>>
    /\ (UntrustedConfig /\ pc # "load") => (pc = "done" /\ err = "failed to load config")

\* C12: Analyze returned the configuration error of a package without a
\* component name.
C12_Witness ==
    /\ pc = "done"
    /\ rawConfig.Readable
    /\ UntrustedConfig
    /\ err = "failed to load config"
    /\ queries = <<>>

(***************************************************************************)
(* Properties of FindPackageForPath (SpecPath)                             *)
(***************************************************************************)
\* The configured paths p with f = p or f starting with p + "/".
MatchingPaths(c, f) ==
    {p \in DOMAIN c.Packages : f = p \/ HasPrefix(f, p \o <<"/">>)}

\* C3: FindPackageForPath returns the package with the longest configured
\* path among those that equal the file path or prefix it at a "/", and
\* none when no configured path matches.
C3_DeepestMatchWins ==
    pc = "found" =>
        IF MatchingPaths(cfg, filePath) = {}
        THEN ~owner.Found
        ELSE /\ owner.Found
             /\ owner.Path \in MatchingPaths(cfg, filePath)
             /\ \A q \in MatchingPaths(cfg, filePath) : Len(q) <= Len(owner.Path)

\* C3: a file under a nested package was resolved while its parent package
\* matched too.
C3_Witness ==
    /\ pc = "found"
    /\ owner.Found
    /\ \E q \in MatchingPaths(cfg, filePath) : Len(q) < Len(owner.Path)

(***************************************************************************)
(* Properties of the calculator (SpecCalc, SpecOrder)                      *)
(***************************************************************************)
\* The commits attributed to the package at path p.
Attributed(p) == Range(PCGet(packageCommits, p))

\* The most severe bump a set of commits asks for.
SetBump(S) ==
    IF \E c \in S : c.IsBreaking THEN Major
    ELSE IF \E c \in S : CommitTypeToBump(c.Type) = Minor THEN Minor
    ELSE IF \E c \in S : CommitTypeToBump(c.Type) = Patch THEN Patch
    ELSE None

\* The releases of the package at path p in the release list.
ReleasesOf(p) == {i \in DOMAIN releases : releases[i].Package.Path = p}

\* The packages of the linked group g.
Members(g) == {p \in DOMAIN cfg.Packages : cfg.Packages[p].LinkedGroup = g}

\* The linked groups that have a package.
Groups == {cfg.Packages[p].LinkedGroup : p \in DOMAIN cfg.Packages} \ {""}

\* C4: a package with a breaking commit among its attributed commits is
\* released with a Major bump, whatever the type of that commit.
C4_BreakingForcesMajor ==
    pc = "done" =>
        \A p \in DOMAIN cfg.Packages :
            (\E c \in Attributed(p) : c.IsBreaking) =>
                /\ ReleasesOf(p) # {}
                /\ \A i \in ReleasesOf(p) : releases[i].BumpType = Major

\* C4: a package was released whose breaking commit has a type that maps to
\* no bump, next to a commit that is not breaking.
C4_Witness ==
    /\ pc = "done"
    /\ \E p \in DOMAIN cfg.Packages :
          /\ \E c \in Attributed(p) : c.IsBreaking /\ c.Type = "chore"
          /\ \E c \in Attributed(p) : ~c.IsBreaking
          /\ ReleasesOf(p) # {}

\* C5: when a member of a linked group is released, every member of the
\* group has exactly one release, and the bump of each is the most severe
\* bump over the commits of all members.
C5_LinkedGroupSharesBump ==
    pc = "done" =>
        \A g \in Groups :
            (\E p \in Members(g) : ReleasesOf(p) # {}) =>
                \A p \in Members(g) :
                    /\ Cardinality(ReleasesOf(p)) = 1
                    /\ \A i \in ReleasesOf(p) :
                          releases[i].BumpType =
                              SetBump(UNION {Attributed(q) : q \in Members(g)})

\* C5: a group was released in which one member has no commit and a later
\* member asks for more than the first one.
C5_Witness ==
    /\ pc = "done"
    /\ \E g \in Groups :
          /\ \E p \in Members(g) : Attributed(p) = {} /\ ReleasesOf(p) # {}
          /\ \E p, q \in Members(g) :
                /\ StrLess(p, q)
                /\ SetBump(Attributed(p)) # None
                /\ SetBump(Attributed(p)) < SetBump(Attributed(q))

\* C6: when exactly one member of a linked group has qualifying commits,
\* every member of the group is in the release list, and all of them have
\* the same BumpType and the same NewVersion.
C6_LinkedGroupSharesVersion ==
    pc = "done" =>
        \A g \in Groups :
            Cardinality({p \in Members(g) : SetBump(Attributed(p)) # None}) = 1 =>
                /\ \A p \in Members(g) : ReleasesOf(p) # {}
                /\ \A i, j \in DOMAIN releases :
                      (releases[i].Package.Path \in Members(g)
                          /\ releases[j].Package.Path \in Members(g)) =>
                          /\ releases[i].BumpType = releases[j].BumpType
                          /\ releases[i].NewVersion = releases[j].NewVersion

\* C7: a package is in the release list exactly when its own commits ask
\* for a bump or it is in a linked group one of whose members' commits do.
C7_ReleasedIffQualifying ==
    pc = "done" =>
        \A p \in DOMAIN cfg.Packages :
            ReleasesOf(p) # {} <=>
                \/ SetBump(Attributed(p)) # None
                \/ /\ cfg.Packages[p].LinkedGroup # ""
                   /\ \E q \in Members(cfg.Packages[p].LinkedGroup) :
                         SetBump(Attributed(q)) # None

\* C7: one package was released while another, whose commits all map to no
\* bump, was not.
C7_Witness ==
    /\ pc = "done"
    /\ releases # <<>>
    /\ \E p \in DOMAIN cfg.Packages :
          /\ Attributed(p) # {}
          /\ SetBump(Attributed(p)) = None
          /\ ReleasesOf(p) = {}

\* The commit c with its files in every order.
FileReorderings(c) ==
    {[c EXCEPT !.Files = [k \in DOMAIN c.Files |-> c.Files[g[k]]]] :
        g \in Permutations(DOMAIN c.Files)}

\* The commit lists that differ from cs in the order of the commits and in
\* the order of the files inside each commit.
Reorderings(cs) ==
    LET variants == {t \in [DOMAIN cs -> UNION {FileReorderings(cs[i]) : i \in DOMAIN cs}] :
                        \A i \in DOMAIN cs : t[i] \in FileReorderings(cs[i])}
    IN  UNION {{[i \in DOMAIN t |-> t[f[i]]] : f \in Permutations(DOMAIN t)} : t \in variants}

\* What a release list says of each package: its bump and its new version.
Outcome(rels) ==
    {[Path |-> rels[i].Package.Path, BumpType |-> rels[i].BumpType,
      NewVersion |-> rels[i].NewVersion] : i \in DOMAIN rels}

\* C8: the released packages, their bumps and their new versions are the
\* same for every order of the commits and of the files in each commit.
C8_OrderIndependent ==
    pc = "done" =>
        \A cs \in Reorderings(commits) :
            Outcome(calculateReleases(cfg, MapCommitsToPackages(cfg, cs, <<>>), policy))
                = Outcome(releases)

\* C8: a release was computed from a commit list whose most severe commit
\* is not the last one.
C8_Witness ==
    /\ pc = "done"
    /\ releases # <<>>
    /\ \E p \in DOMAIN cfg.Packages :
          LET cs == PCGet(packageCommits, p)
          IN  /\ Len(cs) >= 2
              /\ CommitTypeToBump(cs[1].Type) > CommitTypeToBump(cs[Len(cs)].Type)
              /\ \A i \in DOMAIN cs : ~cs[i].IsBreaking

\* C9: the release list is in ascending order of package path.
C9_SortedByPath ==
    pc = "done" =>
        \A i, j \in DOMAIN releases :
            i < j => ~StrLess(releases[j].Package.Path, releases[i].Package.Path)

\* C9: the releases were appended out of path order (the members of a
\* linked group before a package that sorts between them).
C9_Witness ==
    /\ pc = "done"
    /\ EmittedReleases(cfg, packageCommits, policy) # releases

(***************************************************************************)
(* Properties of internal/version (SpecVersion)                            *)
(***************************************************************************)
\* C13: Bump with None returns the major, minor and patch of the receiver
\* and neither its prerelease nor its build metadata, under both policies.
C13_BumpNoneStripsMetadata ==
    (pc = "bumped" /\ bumpArg = None) =>
        /\ result.Major = ver.Major
        /\ result.Minor = ver.Minor
        /\ result.Patch = ver.Patch
        /\ result.Prerelease = <<>>
        /\ result.Build = <<>>

\* C13: Bump with None was called on a version that has a prerelease and
\* build metadata.
C13_Witness ==
    /\ pc = "bumped"
    /\ bumpArg = None
    /\ ver.Prerelease # <<>>
    /\ ver.Build # <<>>

AppliedBump ==
    IF bumpArg = Minor /\ policy /\ ver.Major = 0 THEN Patch ELSE bumpArg

NumericLess(a, b) ==
    \/ a.Major < b.Major
    \/ a.Major = b.Major /\ a.Minor < b.Minor
    \/ a.Major = b.Major /\ a.Minor = b.Minor /\ a.Patch < b.Patch

NumericEqual(a, b) == <<a.Major, a.Minor, a.Patch>> = <<b.Major, b.Minor, b.Patch>>

\* C16: Compare is -1, 0 or 1; the numeric fields decide first; at equal
\* numeric fields a version without prerelease is above one with a
\* prerelease, otherwise the prerelease strings decide in string order; the
\* result is 0 exactly when numeric fields and prerelease are equal.
C16_ComparePrecedence ==
    pc = "compared" =>
        /\ result \in {-1, 0, 1}
        /\ NumericLess(ver, other) => result = -1
        /\ NumericLess(other, ver) => result = 1
        /\ (NumericEqual(ver, other) /\ ver.Prerelease = <<>> /\ other.Prerelease # <<>>)
               => result = 1
        /\ (NumericEqual(ver, other) /\ ver.Prerelease # <<>> /\ other.Prerelease = <<>>)
               => result = -1
        /\ (NumericEqual(ver, other) /\ ver.Prerelease # <<>> /\ other.Prerelease # <<>>)
               => /\ StrLess(ver.Prerelease, other.Prerelease) => result = -1
                  /\ StrLess(other.Prerelease, ver.Prerelease) => result = 1
        /\ result = 0 <=> (NumericEqual(ver, other) /\ ver.Prerelease = other.Prerelease)

\* C16: a release was compared with a prerelease of the same numbers.
C16_Witness ==
    /\ pc = "compared"
    /\ NumericEqual(ver, other)
    /\ ver.Prerelease = <<>>
    /\ other.Prerelease # <<>>
    /\ result = 1

\* C17: parsing the string of a version succeeds and gives the version back,
\* equal in major, minor, patch, prerelease and build.
C17_ParseStringRoundTrip ==
    pc = "parsed" =>
        /\ result.Ok
        /\ result.Major = ver.Major
        /\ result.Minor = ver.Minor
        /\ result.Patch = ver.Patch
        /\ result.Prerelease = ver.Prerelease
        /\ result.Build = ver.Build

\* C17: a version with a two-digit number, a prerelease and build metadata
\* was formatted and parsed.
C17_Witness ==
    /\ pc = "parsed"
    /\ ver.Major >= 10
    /\ ver.Prerelease # <<>>
    /\ ver.Build # <<>>
    /\ Len(text) > 5

\* C19: CommitTypeToBump gives Minor for feat, Patch for fix and perf and
\* None for every other type, whatever the case of the letters, and never Major.
C19_CommitTypeTable ==
    pc = "typed" =>
        /\ result \in {None, Patch, Minor}
        /\ result = Minor <=> typeArg \in {"feat", "FEAT", "Feat"}
        /\ result = Patch <=> typeArg \in {"fix", "FIX", "Fix", "perf", "PERF", "Perf"}

\* C19: a type in upper case was mapped to its bump.
C19_Witness ==
    /\ pc = "typed"
    /\ typeArg = "PERF"
    /\ result = Patch

(***************************************************************************)
(* Properties of parseCommit (SpecCommit)                                  *)
(***************************************************************************)
\* What the release list says of each release: package, bump and new version.
Decisions(rels) ==
    [i \in DOMAIN rels |-> <<rels[i].Package.Path, rels[i].BumpType, rels[i].NewVersion>>]

\* C18: a subject that does not match the conventional pattern still gives
\* a commit, with empty type and scope, not breaking and the whole subject
\* as description; its type maps to None and the releases are those of the
\* commit list without it.
C18_NonConformingCommit ==
    (pc \in {"map", "calc", "done"} /\ ~FindStringSubmatch(subject).Ok) =>
        /\ commits # <<>>
        /\ commits[Len(commits)].Type = ""
        /\ commits[Len(commits)].Scope = <<>>
        /\ commits[Len(commits)].IsBreaking = FALSE
        /\ commits[Len(commits)].Description = subject
        /\ CommitTypeToBump(commits[Len(commits)].Type) = None
        /\ pc = "done" =>
               Decisions(releases) =
                   Decisions(calculateReleases(cfg,
                       MapCommitsToPackages(cfg, SubSeq(commits, 1, Len(commits) - 1), <<>>),
                       policy))

\* C18: the subject "feat feat" (no colon) of a commit that changed packages
\* a and b was parsed after a fix of package b: only b is released, with the
\* Patch bump of the fix.
C18_Witness ==
    /\ pc = "done"
    /\ subject = <<"f", "e", "a", "t", " ", "f", "e", "a", "t">>
    /\ Len(commits) = 2
    /\ Len(releases) = 1
    /\ releases[1].Package.Path = PathB
    /\ releases[1].BumpType = Patch
    /\ Len(releases[1].Commits) = 2

(***************************************************************************)
(* Properties of createRelease (SpecRelease)                               *)
(***************************************************************************)
\* The new version of a release that starts from major 0, the given minor
\* and patch 0.
FreshVersion(minor, bumpType, treatPreMajorAsMinor) ==
    IF bumpType = Major THEN <<"1", ".", "0", ".", "0">>
    ELSE IF bumpType = Patch \/ (bumpType = Minor /\ treatPreMajorAsMinor)
    THEN <<"0", ".", minor, ".", "1">>
    ELSE IF bumpType = Minor
    THEN <<"0", ".", IF minor = "0" THEN "1" ELSE "2", ".", "0">>
    ELSE <<"0", ".", minor, ".", "0">>

Touches(c, p) ==
    \E k \in DOMAIN c.Files :
        LET o == FindPackageForPath(cfg, c.Files[k]) IN o.Found /\ o.Path = p

\* The commits of the traversal that touch the package at path p, in the
\* order of the traversal.
RECURSIVE TouchingCommits(_, _)
TouchingCommits(cs, p) ==
    IF cs = <<>> THEN <<>>
    ELSE IF Touches(Head(cs), p) THEN <<Head(cs)>> \o TouchingCommits(Tail(cs), p)
    ELSE TouchingCommits(Tail(cs), p)

\* C21: the commit list of every release has no two commits with the same
\* hash and is the list of the commits that touch a file of the package,
\* each once, in the order of the traversal.
C21_ReleaseCommitsDeduplicated ==
    pc = "done" =>
        \A i \in DOMAIN releases :
            LET cs == releases[i].Commits
            IN  /\ \A j, k \in DOMAIN cs : j # k => cs[j].SHA # cs[k].SHA
                /\ cs = TouchingCommits(commits, releases[i].Package.Path)

\* C21: a released package has two commits, the first of which changed two
\* of its files and is once in the release.
C21_Witness ==
    /\ pc = "done"
    /\ \E i \in DOMAIN releases :
          /\ Len(releases[i].Commits) = 2
          /\ Len(PCGet(packageCommits, releases[i].Package.Path)) = 3
          /\ Len(releases[i].Commits[1].Files) = 2

(***************************************************************************)
(* Properties of normalizePath (SpecNorm)                                  *)
(***************************************************************************)
\* The configuration raw with every key of "packages" written in its
\* normalized form.
NormalizedKeys(raw) ==
    [raw EXCEPT !.Packages =
        [q \in {normalizePath(k) : k \in DOMAIN raw.Packages} |->
            raw.Packages[CHOOSE k \in DOMAIN raw.Packages : normalizePath(k) = q]]]

\* The component of the package FindPackageForPath returned, "" for nil.
ComponentOf(c, o) == IF o.Found THEN c.Packages[o.Path].Component ELSE ""

\* C22: the owner found for a file under a table is the owner found when the
\* keys of the table and the file path are written in normalized form (for
\* a file path that is not empty then, and keys that stay distinct).
C22_NormalizedFormSameOwner ==
    (/\ pc = "found"
     /\ normalizePath(filePath) # <<>>
     /\ Cardinality(DOMAIN Load(NormalizedKeys(rawConfig)).Packages)
            = Cardinality(DOMAIN rawConfig.Packages))
    => ComponentOf(cfg, owner)
         = ComponentOf(Load(NormalizedKeys(rawConfig)),
                       FindPackageForPath(Load(NormalizedKeys(rawConfig)),
                                          normalizePath(filePath)))

(***************************************************************************)
(* Properties of Apply (SpecApply)                                         *)
(***************************************************************************)
\* C23: Apply with dryRun, and Apply on a result without releases, return
\* no error and leave every VERSION file, every CHANGELOG file and the
\* manifest as they were.
C23_DryRunWritesNothing ==
    (pc = "applied" /\ (dryRun \/ Len(releases) = 0)) =>
        /\ err = ""
        /\ disk = before

\* C23: a dry run of Apply on a result with releases has returned.
C23_Witness ==
    /\ pc = "applied"
    /\ dryRun
    /\ Len(releases) = 2
    /\ disk = before
    /\ disk.Version # <<>>

\* The VERSION file of the package at path p holds version v.
VersionFileHolds(d, p, v) ==
    /\ p \in DOMAIN d.Version
    /\ d.Version[p].Exists
    /\ d.Version[p].Version = v

\* C24: whenever Apply has returned, with or without an error, for every
\* released package that had a manifest entry, the manifest entry and the
\* VERSION file both carry the new version, or both are as they were before
\* the call.
C24_ManifestAtomicWithVersionFiles ==
    pc = "applied" =>
        \A i \in DOMAIN releases :
            LET p == releases[i].Package.Path
            IN  p \in DOMAIN before.Manifest =>
                    \/ /\ VersionFileHolds(disk, p, releases[i].NewVersion)
                       /\ p \in DOMAIN disk.Manifest
                       /\ disk.Manifest[p] = releases[i].NewVersion
                    \/ /\ ReadFile(disk.Version, p, NoVersionFile)
                              = ReadFile(before.Version, p, NoVersionFile)
                       /\ p \in DOMAIN disk.Manifest
                       /\ disk.Manifest[p] = before.Manifest[p]

\* The paths of the released packages.
ReleasedPaths == {releases[i].Package.Path : i \in DOMAIN releases}

\* C25: after Apply has returned without an error from a call without
\* dryRun, the manifest maps the path of every released package to the new
\* version of its release, also when it had no entry before, and the entry
\* of every other package is as it was.
C25_ManifestHoldsNewVersions ==
    (pc = "applied" /\ err = "" /\ ~dryRun) =>
        /\ \A i \in DOMAIN releases :
               /\ releases[i].Package.Path \in DOMAIN disk.Manifest
               /\ disk.Manifest[releases[i].Package.Path] = releases[i].NewVersion
        /\ \A p \in DOMAIN before.Manifest \ ReleasedPaths :
               /\ p \in DOMAIN disk.Manifest
               /\ disk.Manifest[p] = before.Manifest[p]
        /\ DOMAIN disk.Manifest \subseteq DOMAIN before.Manifest \cup ReleasedPaths

\* C27: after Apply has returned without an error from a call without
\* dryRun, every release with an empty commit list has its new version in the
\* VERSION file of its package and in the manifest, and the CHANGELOG of the
\* package is as it was; and changelog.Generate is never called with an
\* empty commit list.
C27_EmptyReleaseSkipsChangelog ==
    /\ \A k \in DOMAIN generated : generated[k].Commits # <<>>
    /\ (pc = "applied" /\ err = "" /\ ~dryRun) =>
           \A i \in DOMAIN releases :
               LET p == releases[i].Package.Path
               IN  releases[i].Commits = <<>> =>
                       /\ VersionFileHolds(disk, p, releases[i].NewVersion)
                       /\ ReadFile(disk.Changelog, p, NoChangelogFile)
                             = ReadFile(before.Changelog, p, NoChangelogFile)
                       /\ p \in DOMAIN disk.Manifest
                       /\ disk.Manifest[p] = releases[i].NewVersion

(***************************************************************************)
(* Properties of the versions of the releases (SpecStored)                 *)
(***************************************************************************)
\* C28: every release of calculateReleases has a bump other than None, and
\* its new version is greater than its old version under Compare.
C28_ReleaseRaisesVersion ==
    pc = "done" =>
        \A i \in DOMAIN releases :
            /\ releases[i].BumpType # None
            /\ Parse(releases[i].OldVersion).Ok
            /\ Parse(releases[i].NewVersion).Ok
            /\ Compare(Parse(releases[i].NewVersion), Parse(releases[i].OldVersion)) = 1

\* C28: the package b, stored at the prerelease 0.1.0-a, was released by the
\* bump of its linked group only, next to a package whose stored version
\* is unparsable.
C28_Witness ==
    /\ pc = "done"
    /\ Len(releases) = 2
    /\ releases[1].Package.CurrentVersion = VBad
    /\ releases[1].OldVersion = V010
    /\ releases[2].Package.CurrentVersion = <<"0", ".", "1", ".", "0", "-", "a">>
    /\ releases[2].Commits = <<>>
    /\ releases[2].NewVersion = <<"0", ".", "1", ".", "1">>

(***************************************************************************)
(* Properties of the release list (SpecGroups)                             *)
(***************************************************************************)
\* C29: no package is twice in the release list of calculateReleases, when
\* every component is in at most one linked group.
C29_ReleasedOnce ==
    pc = "done" =>
        \A i, j \in DOMAIN releases :
            i # j => releases[i].Package.Path # releases[j].Package.Path

\* C29: two members of a linked group both have commits that ask for a
\* release, and each is released once.
C29_Witness ==
    /\ pc = "done"
    /\ cfg.Packages[PathA].LinkedGroup = "g"
    /\ cfg.Packages[PathB].LinkedGroup = "g"
    /\ BumpLoop(PCGet(packageCommits, PathA), None) # None
    /\ BumpLoop(PCGet(packageCommits, PathB), None) # None
    /\ Len(releases) = 2
    /\ releases[1].Package.Path = PathA
    /\ releases[2].Package.Path = PathB

(***************************************************************************)
(* Properties of FindPackageForPath under any iteration order (SpecIter)   *)
(***************************************************************************)
\* C30: FindPackageForPath does not depend on the order in which the range
\* visits the package table: no two matching paths have the same length,
\* and every order returns the package that was returned.
C30_IterationOrderIrrelevant ==
    pc = "found" =>
        /\ \A p, q \in MatchingPaths(cfg, normalizePath(filePath)) :
               Len(p) = Len(q) => p = q
        /\ \A order \in IterationOrders(cfg) :
               FindPackageLoop(cfg, normalizePath(filePath), order, NilPackage, 0) = owner

\* C30: a file under two configured paths was resolved, the table having
\* two orders.
C30_Witness ==
    /\ pc = "found"
    /\ owner.Found
    /\ Cardinality(MatchingPaths(cfg, normalizePath(filePath))) = 2
    /\ Cardinality(IterationOrders(cfg)) = 2

====
